---------------------------- MODULE Spec2Model ----------------------------
(***************************************************************************)
(* Time-series forecasting mixers of lightwood:                            *)
(*   - get_group_matches            (lightwood/helpers/general.py)         *)
(*   - SkTime                       (lightwood/mixer/sktime.py)            *)
(*   - LightGBMArray, LightGBMArrayAR (lightwood/mixer/lightgbm_array.py)  *)
(*                                                                         *)
(* Python lists are sequences; a Python index i is position i + 1.         *)
(* A group combination is a record: the sentinel string '__default' is     *)
(* [sentinel |-> TRUE, ...]; a tuple of labels is [sentinel |-> FALSE,      *)
(* vals |-> <<...>>]; a frozenset of labels (a key of the model table) is  *)
(* [sentinel |-> FALSE, vals |-> {...}].                                   *)
(***************************************************************************)
EXTENDS Integers, Sequences, FiniteSets, TLC

\* ------------------------------------------------------------- bounds
MaxRows == 3        \* rows of a frame handed to the statistical mixer
MaxWindow == 1      \* largest tss.window tried
MaxOffset == 1      \* largest |forecast_offset| tried
MaxH == 2           \* n_ts_predictions of the statistical mixer
MaxARH == 3         \* largest n_ts_predictions of the autoregressive mixer
MaxARRows == 2      \* rows of a dataset handed to the autoregressive mixer
MaxDH == 3          \* largest n_ts_predictions of the direct mixer
MaxDRows == 2       \* rows of a dataset handed to the direct mixer
MaxGMRows == 2      \* rows handed to get_group_matches on its own
MaxGMCalls == 2     \* calls of get_group_matches on the same dict
MaxDFits == 2       \* fit and partial_fit calls on one direct mixer
MaxHsRows == 2      \* rows of train_data in the hyperparameter search
MaxHsFits == 2      \* fit and partial_fit calls on one statistical mixer
MaxError == 2       \* largest finite trial error tried
MaxMaseRows == 2    \* rows of trues and preds handed to mase
MaxMaseFh == 2      \* largest fh handed to mase
MaxMaseValue == 1   \* largest predicted value handed to mase
MaxScale == 2       \* largest scale_error handed to mase

Labels == {"A", "B"}
GroupColumns == <<"g1">>

\* ------------------------------------------------------------ helpers
Range(s) == {s[i] : i \in DOMAIN s}

Max2(a, b) == IF a >= b THEN a ELSE b

Min2(a, b) == IF a <= b THEN a ELSE b

RECURSIVE SortedSeq(_)
\* the elements of a finite set of integers in ascending order
SortedSeq(S) ==
    IF S = {} THEN <<>>
    ELSE LET m == CHOOSE x \in S : \A y \in S : x <= y
         IN <<m>> \o SortedSeq(S \ {m})

\* range(n) as a list: <<0, ..., n-1>>
PyRange(n) == [i \in 1..n |-> i - 1]

\* all tuples of length n over S
Tuples(S, n) == [1..n -> S]

\* itertools.product(*cols): every tuple t with t[j] in cols[j]
Product(cols) == {t \in Tuples(UNION Range(cols), Len(cols)) :
                    \A j \in DOMAIN cols : t[j] \in cols[j]}

\* all enumerations (orders of iteration) of a finite set
Enumerations(S) == {e \in Tuples(S, Cardinality(S)) : Range(e) = S}

\* ------------------------------------------------ group combinations
DefaultComb == [sentinel |-> TRUE, vals |-> <<>>]

TupleComb(t) == [sentinel |-> FALSE, vals |-> t]

DefaultKey == [sentinel |-> TRUE, vals |-> {}]

\* frozenset(group) for a tuple of labels
FrozenSet(t) == [sentinel |-> FALSE, vals |-> Range(t)]

\* ------------------------------------------------- get_group_matches
\* data is the dict {'data': ..., 'group_info': {key: [labels]}}:
\*   data.data       [kind, values]  kind "Series" | "ndarray" (2-d)
\*   data.keys       the keys of group_info in dict order
\*   data.group_info key -> list of labels
\* combination is DefaultComb or TupleComb(values in the order zip sees them).
\* The result carries the two returned values and the entry data['data'] as
\* the call leaves it. Every frame and data entry of this module has at
\* least one row.
\* list(set.intersection(*all_sets)) at line 30 lists the indices in the
\* set's iteration order, which for the indices below 8 used here is
\* ascending.
\* lines 17-20: a Series (np.vstack) or a 1-d array (np.expand_dims) is
\* rebound to a 2-d array of the same values
Vstack(entry) ==
    IF entry.kind \in {"Series", "ndarray1d"}
    THEN [kind |-> "ndarray2d", values |-> entry.values]
    ELSE entry

MatchSets(data, combination) ==
    [j \in 1..Min2(Len(combination.vals), Len(data.keys)) |->
        {i \in 0..(Len(data.group_info[data.keys[j]]) - 1) :
            data.group_info[data.keys[j]][i + 1] = combination.vals[j]}]

RECURSIVE IntersectAll(_)
IntersectAll(sets) ==
    IF Len(sets) = 1 THEN sets[1]
    ELSE sets[1] \cap IntersectAll(Tail(sets))

\* variant without the sentinel test of line 22: the sentinel string is
\* zipped with the keys like a tuple and its characters match no label
GetGroupMatchesNoSentinel(data, combination) ==
    LET entry == Vstack(data.data)
    IN IF combination.sentinel
       THEN [idxs |-> <<>>, data |-> <<>>, entry |-> entry]
       ELSE LET all_sets == MatchSets(data, combination)
            IN IF Len(all_sets) > 0
               THEN LET idxs == SortedSeq(IntersectAll(all_sets))
                    IN [idxs |-> idxs,
                        data |-> [k \in DOMAIN idxs |-> entry.values[idxs[k] + 1]],
                        entry |-> entry]
               ELSE [idxs |-> <<>>, data |-> <<>>, entry |-> entry]

\* variant in which an empty list of sets filters nothing out
GetGroupMatchesEmptyIsAll(data, combination) ==
    LET entry == Vstack(data.data)
        n == Len(entry.values)
        all_sets == MatchSets(data, combination)
        idxs == IF Len(all_sets) > 0 /\ ~combination.sentinel
                THEN SortedSeq(IntersectAll(all_sets)) ELSE PyRange(n)
    IN [idxs |-> idxs,
        data |-> [k \in DOMAIN idxs |-> entry.values[idxs[k] + 1]],
        entry |-> entry]

GetGroupMatches(data, combination) ==
    LET entry == Vstack(data.data)
        n == Len(entry.values)
    IN IF combination.sentinel
       THEN [idxs |-> PyRange(n), data |-> entry.values, entry |-> entry]
       ELSE LET all_sets == MatchSets(data, combination)
            IN IF Len(all_sets) > 0
               THEN LET idxs == SortedSeq(IntersectAll(all_sets))
                    IN [idxs |-> idxs,
                        data |-> [k \in DOMAIN idxs |-> entry.values[idxs[k] + 1]],
                        entry |-> entry]
               ELSE [idxs |-> <<>>, data |-> <<>>, entry |-> entry]


\* ============================================================ SkTime
VARIABLES
    sk_cfg,       \* constructor arguments and ts_analysis (fixed after Init)
    sk_train,     \* the frame handed to fit: one tuple of group labels per row
    sk_missing,   \* the positions (from 0) of its rows whose target is NaN
    sk_pc,        \* "init" | "fitting" | "ready" | "fit_raised" |
                  \* "predicting" | "done" | "predict_raised"
    sk_models,    \* self.models: key -> forecaster
    sk_todo,      \* the group combinations _fit has still to visit
    sk_ds,        \* the frame handed to __call__: one tuple of labels per row
    sk_offset,    \* args.forecast_offset
    sk_ydf,       \* ydf['prediction'], one cell per input row
    sk_pending,   \* pending_idxs
    sk_groups,    \* all_group_combinations not yet visited by the loop
    sk_log,       \* history: for every group whose forecaster _fit called
                  \* fit on, those calls in order, each
                  \* [group, cls, options, ok]
    sk_writes     \* history: how many times the running call has assigned
                  \* each row of ydf

sk_vars == <<sk_cfg, sk_train, sk_missing, sk_pc, sk_models, sk_todo, sk_ds, sk_offset,
             sk_ydf, sk_pending, sk_groups, sk_log, sk_writes>>

\* a cell of a numeric column: np.nan, or the number x
NaN == [nan |-> TRUE, v |-> 0]

Num(x) == [nan |-> FALSE, v |-> x]

\* frames: rows of tuples of labels, one label per grouping column; the
\* target value of the row at position i is i (rows are told apart by it),
\* or NaN when the position is among the missing ones
Frames(group_by, maxrows) ==
    UNION {[1..n -> Tuples(Labels, Len(group_by))] : n \in 1..maxrows}

\* the frames tried as training data: the labels are interchangeable, so the
\* oldest row carries the first of them
TrainFrames(group_by, maxrows) ==
    {rows \in Frames(group_by, maxrows) : rows[1] = [j \in DOMAIN group_by |-> "A"]}

TargetColumn(rows, missing) ==
    [kind |-> "Series",
     values |-> [i \in 1..Len(rows) |-> IF (i - 1) \in missing THEN NaN ELSE Num(i - 1)]]

ColumnIndex(group_by, c) == CHOOSE j \in DOMAIN group_by : group_by[j] = c

\* {'data': df[target], 'group_info': {gcol: df[gcol].tolist() ...} or {}}
DataDict(rows, missing, group_by) ==
    [data |-> TargetColumn(rows, missing),
     keys |-> group_by,
     group_info |-> [c \in Range(group_by) |->
                        [i \in 1..Len(rows) |-> rows[i][ColumnIndex(group_by, c)]]]]

\* ts_analysis['group_combinations']: the observed combinations, frozen, in
\* some order, and the default sentinel; ungrouped data has the sentinel only
GroupCombinations(rows) ==
    LET observed == {FrozenSet(rows[i]) : i \in {j \in DOMAIN rows : rows[j] # <<>>}}
    IN {e \o <<DefaultKey>> : e \in Enumerations(observed)}

\* ---- forecasters
\* the forecaster classes tried as model_path: those of line 88
ModelClasses == {"ets.AutoETS", "theta.ThetaForecaster", "arima.AutoARIMA"}

\* hasattr(submodel, '_cutoff'): every sktime forecaster has the attribute
HasCutoff(cls) == cls \in ModelClasses

\* hasattr(submodel, 'd'): of the forecasters used here only AutoARIMA has it
HasD(cls) == cls = "arima.AutoARIMA"

\* TransformedTargetForecaster(model_pipeline), not fitted yet. d is the base
\* forecaster's attribute d: <<>> is None, <<k>> is k; no keyword argument of
\* _fit sets it
NewPipeline(cls) ==
    [cls |-> cls, options |-> "configured", d |-> <<>>, is_fitted |-> FALSE,
     series |-> <<>>]

\* model_class(), not fitted yet
NewDefaultOptions(cls) ==
    [cls |-> cls, options |-> "default", d |-> <<>>, is_fitted |-> FALSE,
     series |-> <<>>]

\* forecaster.fit(series, fh) returning normally
Fitted(forecaster, series) ==
    [forecaster EXCEPT !.is_fitted = TRUE, !.series = series]

Put(f, k, v) == [x \in (DOMAIN f) \cup {k} |-> IF x = k THEN v ELSE f[x]]

\* ---- fit
CutoffFactor == 4

MinAutoSize == 500

\* series.iloc[-cutoff:] with cutoff = min(len(series), max(500, sp * cutoff_factor))
AutoSize(series, sp) ==
    LET cutoff == Min2(Len(series), Max2(MinAutoSize, sp * CutoffFactor))
    IN SubSeq(series, Len(series) - cutoff + 1, Len(series))

\* the (idxs, data) pair _fit builds for one group: all rows when the task is
\* ungrouped, the rows get_group_matches returns otherwise. enum is the order
\* in which zip(combination, keys) iterates a frozenset key.
FitMatches(data, group, enum) ==
    IF data.keys = <<>>
    THEN [idxs |-> PyRange(Len(data.data.values)), data |-> data.data.values]
    ELSE LET m == GetGroupMatches(data, IF group.sentinel THEN DefaultComb
                                                        ELSE TupleComb(enum))
         IN [idxs |-> m.idxs, data |-> m.data]

\* lines 173-181, the series handed to forecaster.fit: the values by
\* ascending index, the index reset to 0.., the missing values removed and,
\* when auto_size is on, the oldest values cut off. Each element keeps the
\* index label the reset gave it.
FitSeries(matches, cfg) ==
    LET byidx == [k \in DOMAIN matches.idxs |->
                    LET i == SortedSeq(Range(matches.idxs))[k]
                        at == CHOOSE q \in DOMAIN matches.idxs : matches.idxs[q] = i
                    IN [label |-> k - 1, value |-> matches.data[at]]]
        present == SelectSeq(byidx, LAMBDA e : ~e.value.nan)
    IN IF cfg.auto_size THEN AutoSize(present, cfg.sp) ELSE present

\* fit(): hyperparam_search is off, so _fit(ConcatedEncodedDs([train, dev]))
\* starts with module_name = model_path
SkFitStart ==
    /\ sk_pc = "init"
    /\ \E order \in GroupCombinations(sk_train) : sk_todo' = order
    /\ sk_pc' = "fitting"
    /\ UNCHANGED <<sk_cfg, sk_train, sk_missing, sk_models, sk_ds, sk_offset, sk_ydf,
                   sk_pending, sk_groups, sk_log, sk_writes>>

\* variant that also fits a series of exactly window values
FitsSeriesInclusive(size, window) == size >= window

\* line 172: `if series_data.size > self.ts_analysis['tss'].window`
FitsSeries(size, window) == size > window

\* the three ways the body of the try/except of one group can end
FitOutcomes == {"fitted", "refitted", "raised"}

\* the ways it can end on a given series: a forecaster's fit raises on a
\* series without values, with the configured and with the default options
FitOutcomesOn(series) == IF series = <<>> THEN {"raised"} ELSE FitOutcomes

\* variant with a second retry after a failed one
FitAttemptsRetryTwice(group, cls, outcome) ==
    LET call(options, ok) ==
           [group |-> group, cls |-> cls, options |-> options, ok |-> ok]
    IN CASE outcome = "fitted" -> <<call("configured", TRUE)>>
         [] outcome = "refitted" ->
              <<call("configured", FALSE), call("default", FALSE), call("default", TRUE)>>
         [] outcome = "raised" ->
              <<call("configured", FALSE), call("default", FALSE), call("default", FALSE)>>

\* lines 182-186: the calls of fit one group's try/except makes, in order
FitAttempts(group, cls, outcome) ==
    LET call(options, ok) ==
           [group |-> group, cls |-> cls, options |-> options, ok |-> ok]
    IN CASE outcome = "fitted" -> <<call("configured", TRUE)>>
         [] outcome = "refitted" -> <<call("configured", FALSE), call("default", TRUE)>>
         [] outcome = "raised" -> <<call("configured", FALSE), call("default", FALSE)>>

\* variant that keeps the object a key already has when it is fitted and
\* extends what it was fitted on
FitOneGroupIncremental(models, data, cfg, group, enum, outcome) ==
    LET kept == group \in DOMAIN models /\ models[group].is_fitted
        with_new == IF kept THEN models ELSE Put(models, group, NewPipeline(cfg.model_path))
        matches == FitMatches(data, group, enum)
        series == (IF kept THEN models[group].series ELSE <<>>) \o FitSeries(matches, cfg)
    IN IF FitsSeries(Len(matches.data), cfg.window)
       THEN CASE outcome = "fitted" ->
                   Put(with_new, group, Fitted(with_new[group], series))
              [] outcome = "refitted" ->
                   Put(with_new, group,
                       Fitted(NewDefaultOptions(cfg.model_path), series))
              [] outcome = "raised" ->
                   Put(with_new, group, NewDefaultOptions(cfg.model_path))
       ELSE with_new

\* self.models after one iteration of `for group in group_combinations`
FitOneGroup(models, data, cfg, group, enum, outcome) ==
    LET with_new == Put(models, group, NewPipeline(cfg.model_path))
        matches == FitMatches(data, group, enum)
        series == FitSeries(matches, cfg)
    IN IF FitsSeries(Len(matches.data), cfg.window)
       THEN CASE outcome = "fitted" ->
                   Put(with_new, group, Fitted(with_new[group], series))
              [] outcome = "refitted" ->
                   Put(with_new, group,
                       Fitted(NewDefaultOptions(cfg.model_path), series))
              [] outcome = "raised" ->
                   Put(with_new, group, NewDefaultOptions(cfg.model_path))
       ELSE with_new

\* whether that iteration lets an exception out of _fit
FitOneGroupRaises(data, cfg, group, enum, outcome) ==
    /\ FitsSeries(Len(FitMatches(data, group, enum).data), cfg.window)
    /\ outcome = "raised"

SkFitGroup ==
    /\ sk_pc = "fitting"
    /\ sk_todo # <<>>
    /\ LET group == Head(sk_todo)
           data == DataDict(sk_train, sk_missing, sk_cfg.group_by)
       IN \E enum \in Enumerations(group.vals) :
          \E outcome \in FitOutcomesOn(FitSeries(FitMatches(data, group, enum), sk_cfg)) :
            /\ sk_models' = FitOneGroup(sk_models, data, sk_cfg, group, enum, outcome)
            /\ sk_log' =
                  IF FitsSeries(Len(FitMatches(data, group, enum).data), sk_cfg.window)
                  THEN Put(sk_log, group, FitAttempts(group, sk_cfg.model_path, outcome))
                  ELSE sk_log
            /\ IF FitOneGroupRaises(data, sk_cfg, group, enum, outcome)
               THEN sk_pc' = "fit_raised" /\ sk_todo' = sk_todo
               ELSE /\ sk_todo' = Tail(sk_todo)
                    /\ sk_pc' = IF Tail(sk_todo) = <<>> THEN "ready" ELSE "fitting"
    /\ UNCHANGED <<sk_cfg, sk_train, sk_missing, sk_ds, sk_offset, sk_ydf, sk_pending, sk_groups,
                   sk_writes>>

\* ---- __call__
\* the cell pd.DataFrame(0, ...) starts every row with
ZeroCell == [zero |-> TRUE]

\* model.predict(np.arange(start_idx, end_idx)).tolist() of the forecaster
\* stored under key: one value per requested relative position
Forecast(key, start_idx, end_idx) ==
    [zero |-> FALSE, model |-> key,
     fh |-> [j \in 1..Max2(end_idx - start_idx, 0) |-> start_idx + j - 1]]

\* submodel._cutoff of a fitted forecaster: the last index label of the
\* series it was fitted on
Cutoff(model) == model.series[Len(model.series)].label

\* min_offset of _call_groupmodel; [inf |-> TRUE] is -np.inf
MinOffset(model) ==
    IF HasCutoff(model.cls) /\ HasD(model.cls)
    THEN LET model_d == IF model.d = <<>> THEN 0 ELSE model.d[1]
         IN [inf |-> FALSE, v |-> (-Cutoff(model)) + model_d + 1]
    ELSE [inf |-> TRUE, v |-> 0]

\* variant that passes a request below the minimum through
StartIdxUnclipped(idx, offset, min_offset) == 1 + idx + offset

\* line 275: start_idx
StartIdx(idx, offset, min_offset) ==
    IF min_offset.inf THEN 1 + idx + offset
    ELSE Max2(1 + idx + offset, min_offset.v)

\* line 276: end_idx
EndIdx(idx, offset, h) == 1 + idx + offset + h

\* variant that writes by the position within the series, not by the index
\* the row had in the input
TargetRowPositional(original_index, idx) == idx

\* the row of ydf the forecast of the idx-th element of the series goes to
TargetRow(original_index, idx) == original_index[idx + 1]

RECURSIVE CallRows(_, _, _, _, _, _, _)
\* the loop `for idx, _ in enumerate(series.iteritems())` from idx on
CallRows(ydf, key, model, original_index, offset, h, idx) ==
    IF idx >= Len(original_index) THEN ydf
    ELSE CallRows(
            [ydf EXCEPT ![TargetRow(original_index, idx) + 1] =
                Forecast(key, StartIdx(idx, offset, MinOffset(model)),
                         EndIdx(idx, offset, h))],
            key, model, original_index, offset, h, idx + 1)

\* _call_groupmodel(ydf, model, series, offset) for the forecaster under key
CallGroupModel(ydf, models, key, original_index, offset, h) ==
    CallRows(ydf, key, models[key], original_index, offset, h, 0)

\* the assignments to ydf's rows after _call_groupmodel on the series with
\* the index original_index: one per element of the series
Written(writes, original_index) ==
    [r \in DOMAIN writes |->
        writes[r] + Cardinality({idx \in 0..(Len(original_index) - 1) :
                                    TargetRow(original_index, idx) + 1 = r})]

\* variant that leaves the served rows pending
StillPendingAll(pending, series_idxs) == pending

\* line 240: pending_idxs -= set(series_idxs)
StillPending(pending, series_idxs) == pending \ Range(series_idxs)

\* variant that takes any entry of the table, fitted or not
ResolveForecasterAnyEntry(models, key) ==
    IF key \in DOMAIN models THEN key ELSE DefaultKey

\* the key of the forecaster lines 233-237 pick for a group
ResolveForecaster(models, key) ==
    IF key \in DOMAIN models /\ models[key].is_fitted THEN key ELSE DefaultKey

\* list(product(*[set(x) for x in data['group_info'].values()]))
AllGroupCombinations(data) ==
    Product([j \in DOMAIN data.keys |-> Range(data.group_info[data.keys[j]])])

SkCallStart ==
    /\ sk_pc = "ready"
    /\ \E rows \in Frames(sk_cfg.group_by, MaxRows), offset \in (-MaxOffset)..MaxOffset :
         /\ sk_ds' = rows
         /\ sk_offset' = offset
         /\ sk_ydf' = [r \in 1..Len(rows) |-> ZeroCell]
         /\ sk_pending' = 0..(Len(rows) - 1)
         /\ sk_writes' = [r \in 1..Len(rows) |-> 0]
         /\ sk_groups' = AllGroupCombinations(DataDict(rows, {}, sk_cfg.group_by))
    /\ sk_pc' = "predicting"
    /\ UNCHANGED <<sk_cfg, sk_train, sk_missing, sk_models, sk_todo, sk_log>>

\* one iteration of `for group in all_group_combinations`
SkCallGroup ==
    /\ sk_pc = "predicting"
    /\ \E group \in sk_groups :
         LET m == GetGroupMatches(DataDict(sk_ds, {}, sk_cfg.group_by), TupleComb(group))
             series_idxs == SortedSeq(Range(m.idxs))
             key == ResolveForecaster(sk_models, FrozenSet(group))
         IN /\ sk_groups' = sk_groups \ {group}
            /\ IF Len(m.data) > 0
               THEN IF sk_models[key].is_fitted
                    THEN /\ sk_ydf' = CallGroupModel(sk_ydf, sk_models, key, series_idxs,
                                                     sk_offset, sk_cfg.n_ts_predictions)
                         /\ sk_pending' = StillPending(sk_pending, series_idxs)
                         /\ sk_writes' = Written(sk_writes, series_idxs)
                         /\ sk_pc' = sk_pc
                    ELSE \* predict of a forecaster that was never fitted raises
                         /\ sk_pc' = "predict_raised"
                         /\ UNCHANGED <<sk_ydf, sk_pending, sk_writes>>
               ELSE UNCHANGED <<sk_ydf, sk_pending, sk_pc, sk_writes>>
    /\ UNCHANGED <<sk_cfg, sk_train, sk_missing, sk_models, sk_todo, sk_ds, sk_offset, sk_log>>

\* lines 242-247: the default model answers the rows still pending
SkCallFinish ==
    /\ sk_pc = "predicting"
    /\ sk_groups = {}
    /\ IF sk_pending # {}
       THEN IF sk_models[DefaultKey].is_fitted
            THEN /\ sk_ydf' = CallGroupModel(sk_ydf, sk_models, DefaultKey,
                                             SortedSeq(sk_pending), sk_offset,
                                             sk_cfg.n_ts_predictions)
                 /\ sk_writes' = Written(sk_writes, SortedSeq(sk_pending))
                 /\ sk_pc' = "done"
            ELSE /\ sk_pc' = "predict_raised"
                 /\ UNCHANGED <<sk_ydf, sk_writes>>
       ELSE sk_pc' = "done" /\ UNCHANGED <<sk_ydf, sk_writes>>
    /\ UNCHANGED <<sk_cfg, sk_train, sk_missing, sk_models, sk_todo, sk_ds, sk_offset,
                   sk_pending, sk_groups, sk_log>>

\* the missing targets tried: none, the oldest row's, the newest row's
MissingTargets(n) == {{}, {0}, {n - 1}}

SkConfigs ==
    [group_by : {SubSeq(GroupColumns, 1, k) : k \in 0..Len(GroupColumns)},
     window : 0..MaxWindow,
     n_ts_predictions : {MaxH},
     model_path : ModelClasses,
     auto_size : {TRUE},
     sp : {1}]

SkInit ==
    /\ sk_cfg \in SkConfigs
    /\ sk_train \in TrainFrames(sk_cfg.group_by, MaxRows)
    /\ sk_missing \in MissingTargets(Len(sk_train))
    /\ sk_pc = "init"
    /\ sk_models = <<>>
    /\ sk_todo = <<>>
    /\ sk_ds = <<>>
    /\ sk_offset = 0
    /\ sk_ydf = <<>>
    /\ sk_pending = {}
    /\ sk_groups = {}
    /\ sk_log = <<>>
    /\ sk_writes = <<>>


\* ===================================================== LightGBMArrayAR
VARIABLES
    ar_cfg,          \* constructor arguments and ts_analysis (fixed after Init)
    ar_pc,           \* "idle" | "fit_loop" | "fit_done" | "fit_raised" |
                     \* "call_loop" | "call_done" | "call_raised"
    ar_frames,       \* ds.data_frame of every EncodedDs (1: train, 2: dev)
    ar_model,        \* the single LightGBM model: [fits, use_optuna]
    ar_ds_arr,       \* the datasets of the running call, as positions in ar_frames
    ar_original_dfs, \* original_dfs
    ar_timestep,     \* timestep of the running loop
    ar_i,            \* datasets of the inner loop already visited
    ar_all_predictions, \* all_predictions of the running timestep
    ar_ydf,          \* ydf: column prediction_t -> rows; "prediction" once built
    ar_saved_optuna, \* the local use_optuna of fit
    ar_pre,          \* history: the frames as they were when the handler started
    ar_log,          \* history: the base-model calls and displacements so far
    ar_steps         \* history: every base-model prediction and displacement
                     \* of the running handler with its dataset, its
                     \* arguments and its result

ar_vars == <<ar_cfg, ar_pc, ar_frames, ar_model, ar_ds_arr, ar_original_dfs,
             ar_timestep, ar_i, ar_all_predictions, ar_ydf, ar_saved_optuna,
             ar_pre, ar_log, ar_steps>>

TargetCol == "target"

HistCol == "__mdb_ts_previous_target"

OrderCol == "T"

GroupCol == "g"

PredictionsCol == "__mdb_predictions"

\* f'{self.target}_timestep_{timestep}'
TimestepCol(timestep) ==
    <<"target_timestep_1", "target_timestep_2", "target_timestep_3",
      "target_timestep_4", "target_timestep_5">>[timestep]

\* ts_analysis['deltas']: group {"A"} was observed at analysis time, group
\* {"B"} was not
Deltas ==
    (DefaultKey :> (OrderCol :> 1)) @@ (FrozenSet(<<"A">>) :> (OrderCol :> 2))

\* variant that takes the default group's delta for every row
DeltaOfDefault(deltas, group) == deltas[DefaultKey]

\* deltas.get(group, deltas['__default'])
DeltaOf(deltas, group) ==
    IF group \in DOMAIN deltas THEN deltas[group] ELSE deltas[DefaultKey]

\* frozenset(row[group_by]) if group_by else '__default'
RowGroup(row, group_by) ==
    IF group_by # <<>> THEN FrozenSet([j \in DOMAIN group_by |-> row[group_by[j]]])
    ELSE DefaultKey

\* variant that drops the newest entry and keeps the oldest
SlideDropNewest(window, value) == SubSeq(window, 1, Len(window) - 1) \o <<value>>

\* row.get(col)[1:] + [value]
Slide(window, value) == SubSeq(window, 2, Len(window)) \o <<value>>

\* variant that does not drop the temporary column
DisplaceDsKeepsTemporary(frame, predictions, timestep, cfg) ==
    LET with_pred ==
            [columns |-> frame.columns \cup {PredictionsCol},
             rows |-> [r \in DOMAIN frame.rows |->
                         [c \in frame.columns \cup {PredictionsCol} |->
                            IF c = PredictionsCol THEN predictions[r]
                            ELSE frame.rows[r][c]]]]
        moved(row) ==
            [c \in with_pred.columns |->
                IF c = HistCol
                THEN Slide(row[HistCol], row[PredictionsCol])
                ELSE IF c \in Range(cfg.order_by)
                THEN Slide(row[c],
                           row[c][Len(row[c])]
                             + DeltaOf(cfg.deltas, RowGroup(row, cfg.group_by))[c])
                ELSE row[c]]
        displaced == [with_pred EXCEPT !.rows = [r \in DOMAIN @ |-> moved(@[r])]]
        retargeted ==
            IF TimestepCol(timestep) \in displaced.columns
            THEN [columns |-> displaced.columns \cup {TargetCol},
                  rows |-> [r \in DOMAIN displaced.rows |->
                              [c \in displaced.columns \cup {TargetCol} |->
                                 IF c = TargetCol
                                 THEN displaced.rows[r][TimestepCol(timestep)]
                                 ELSE displaced.rows[r][c]]]]
            ELSE displaced
    IN retargeted

\* _displace_ds(data, predictions, timestep): the data frame it leaves
DisplaceDs(frame, predictions, timestep, cfg) ==
    LET with_pred ==
            [columns |-> frame.columns \cup {PredictionsCol},
             rows |-> [r \in DOMAIN frame.rows |->
                         [c \in frame.columns \cup {PredictionsCol} |->
                            IF c = PredictionsCol THEN predictions[r]
                            ELSE frame.rows[r][c]]]]
        moved(row) ==
            [c \in with_pred.columns |->
                IF c = HistCol
                THEN Slide(row[HistCol], row[PredictionsCol])
                ELSE IF c \in Range(cfg.order_by)
                THEN Slide(row[c],
                           row[c][Len(row[c])]
                             + DeltaOf(cfg.deltas, RowGroup(row, cfg.group_by))[c])
                ELSE row[c]]
        displaced == [with_pred EXCEPT !.rows = [r \in DOMAIN @ |-> moved(@[r])]]
        retargeted ==
            IF TimestepCol(timestep) \in displaced.columns
            THEN [columns |-> displaced.columns \cup {TargetCol},
                  rows |-> [r \in DOMAIN displaced.rows |->
                              [c \in displaced.columns \cup {TargetCol} |->
                                 IF c = TargetCol
                                 THEN displaced.rows[r][TimestepCol(timestep)]
                                 ELSE displaced.rows[r][c]]]]
            ELSE displaced
    IN [columns |-> retargeted.columns \ {PredictionsCol},
        rows |-> [r \in DOMAIN retargeted.rows |->
                    [c \in retargeted.columns \ {PredictionsCol} |->
                        retargeted.rows[r][c]]]]

\* deepcopy(ds.data_frame) for ds in the datasets at positions ds_arr
CopyFrames(frames, ds_arr) == [k \in DOMAIN ds_arr |-> frames[ds_arr[k]]]

\* LightGBM.__call__(ds): one prediction per row, a function of the model as
\* fitted so far and of the row's input columns
BasePredict(model, frame) ==
    [r \in DOMAIN frame.rows |->
        model.fits + (IF HistCol \in frame.columns
                      THEN frame.rows[r][HistCol][Len(frame.rows[r][HistCol])]
                      ELSE 0)]

\* LightGBM.fit(train, dev) returning normally
BaseFit(model) == [model EXCEPT !.fits = @ + 1]

\* the frames after `ds.data_frame = original_dfs[i]` for every dataset of
\* the sequence ds_arr
RestoreFrames(frames, ds_arr, original_dfs) ==
    [f \in DOMAIN frames |->
        IF \E k \in DOMAIN ds_arr : ds_arr[k] = f
        THEN original_dfs[CHOOSE k \in DOMAIN ds_arr : ds_arr[k] = f]
        ELSE frames[f]]

\* variant that restores the train frame only
RestoreAfterFitTrainOnly(frames, ds_arr, original_dfs) ==
    RestoreFrames(frames, SubSeq(ds_arr, 1, 1), original_dfs)

\* lines 116-118 of fit
RestoreAfterFit(frames, ds_arr, original_dfs) ==
    RestoreFrames(frames, ds_arr, original_dfs)

\* variant that leaves the displaced frames in place
RestoreAfterCallNone(frames, ds_arr, original_dfs) == frames

\* lines 145-147 of __call__
RestoreAfterCall(frames, ds_arr, original_dfs) ==
    RestoreFrames(frames, ds_arr, original_dfs)

\* variant with range(1, self.n_ts_predictions + 1)
FitHasStepInclusive(timestep, h) == timestep <= h

\* range(1, self.n_ts_predictions) of fit has a step left at timestep
FitHasStep(timestep, h) == timestep < h

\* range(self.n_ts_predictions) of __call__ has a step left at timestep
CallHasStep(timestep, h) == timestep < h

\* variant that displaces after the last step too
CallDisplacesAlways(timestep, h) == TRUE

\* `if timestep + 1 < self.n_ts_predictions` of __call__
CallDisplaces(timestep, h) == timestep + 1 < h

Logged(entry) == ar_log' = Append(ar_log, entry)

\* history entry: super().__call__(ds) at a timestep, the frame it read and
\* the predictions it returned
PredictStep(ds, timestep, frame, predictions) ==
    [op |-> "predict", ds |-> ds, timestep |-> timestep, before |-> frame,
     predictions |-> predictions, after |-> frame]

\* history entry: _displace_ds(ds, predictions, timestep), the frame before
\* and after it
DisplaceStep(ds, timestep, frame, predictions, displaced) ==
    [op |-> "displace", ds |-> ds, timestep |-> timestep, before |-> frame,
     predictions |-> predictions, after |-> displaced]

\* ---- fit: lines 92-103, the first fit and the set-up of exhaustive mode
ARFitStart ==
    /\ ar_pc = "idle"
    /\ ar_pre' = ar_frames
    /\ ar_ds_arr' = <<1, 2>>
    /\ \/ \* super().fit raises
          /\ ar_pc' = "fit_raised"
          /\ UNCHANGED <<ar_model, ar_original_dfs, ar_timestep, ar_i,
                         ar_saved_optuna, ar_log>>
       \/ /\ Logged("fit")
          /\ IF ar_cfg.exhaustive_fitting
             THEN /\ ar_saved_optuna' = ar_model.use_optuna
                  /\ ar_model' = [BaseFit(ar_model) EXCEPT !.use_optuna = FALSE]
                  /\ ar_original_dfs' = CopyFrames(ar_frames, <<1, 2>>)
                  /\ ar_timestep' = 1
                  /\ ar_i' = 0
                  /\ ar_pc' = "fit_loop"
             ELSE /\ ar_model' = BaseFit(ar_model)
                  /\ ar_pc' = "fit_done"
                  /\ UNCHANGED <<ar_original_dfs, ar_timestep, ar_i, ar_saved_optuna>>
    /\ UNCHANGED <<ar_cfg, ar_frames, ar_all_predictions, ar_ydf, ar_steps>>

\* lines 106-109: predict one dataset and displace it
ARFitDisplace ==
    /\ ar_pc = "fit_loop"
    /\ FitHasStep(ar_timestep, ar_cfg.n_ts_predictions)
    /\ ar_i < Len(ar_ds_arr)
    /\ \/ \* super().__call__ raises
          /\ ar_pc' = "fit_raised"
          /\ UNCHANGED <<ar_frames, ar_i, ar_log, ar_steps>>
       \/ LET f == ar_ds_arr[ar_i + 1]
              predictions == BasePredict(ar_model, ar_frames[f])
              displaced == DisplaceDs(ar_frames[f], predictions, ar_timestep, ar_cfg)
          IN /\ ar_frames' = [ar_frames EXCEPT ![f] = displaced]
             /\ ar_i' = ar_i + 1
             /\ ar_log' = ar_log \o <<"predict", "displace">>
             /\ ar_steps' = ar_steps \o
                   <<PredictStep(f, ar_timestep - 1, ar_frames[f], predictions),
                     DisplaceStep(f, ar_timestep, ar_frames[f], predictions, displaced)>>
             /\ ar_pc' = ar_pc
    /\ UNCHANGED <<ar_cfg, ar_model, ar_ds_arr, ar_original_dfs, ar_timestep,
                   ar_all_predictions, ar_ydf, ar_saved_optuna, ar_pre>>

\* lines 111-112: refit on the displaced datasets
ARFitRefit ==
    /\ ar_pc = "fit_loop"
    /\ FitHasStep(ar_timestep, ar_cfg.n_ts_predictions)
    /\ ar_i = Len(ar_ds_arr)
    /\ \/ \* super().fit raises
          /\ ar_pc' = "fit_raised"
          /\ UNCHANGED <<ar_model, ar_timestep, ar_i, ar_log>>
       \/ /\ ar_model' = BaseFit(ar_model)
          /\ ar_timestep' = ar_timestep + 1
          /\ ar_i' = 0
          /\ Logged("fit")
          /\ ar_pc' = ar_pc
    /\ UNCHANGED <<ar_cfg, ar_frames, ar_ds_arr, ar_original_dfs,
                   ar_all_predictions, ar_ydf, ar_saved_optuna, ar_pre, ar_steps>>

\* lines 114-118: the loop is over
ARFitFinish ==
    /\ ar_pc = "fit_loop"
    /\ ~FitHasStep(ar_timestep, ar_cfg.n_ts_predictions)
    /\ ar_model' = [ar_model EXCEPT !.use_optuna = ar_saved_optuna]
    /\ ar_frames' = RestoreAfterFit(ar_frames, ar_ds_arr, ar_original_dfs)
    /\ ar_pc' = "fit_done"
    /\ UNCHANGED <<ar_cfg, ar_ds_arr, ar_original_dfs, ar_timestep, ar_i,
                   ar_all_predictions, ar_ydf, ar_saved_optuna, ar_pre, ar_log,
                   ar_steps>>

\* ---- __call__
RECURSIVE ConcatReversed(_)
\* variant that concatenates the parts last dataset first
ConcatReversed(parts) ==
    IF parts = <<>> THEN <<>> ELSE ConcatReversed(Tail(parts)) \o Head(parts)

RECURSIVE Concat(_)
\* pd.concat(all_predictions).reset_index(drop=True)
Concat(parts) ==
    IF parts = <<>> THEN <<>> ELSE Head(parts) \o Concat(Tail(parts))

\* sum([len(d) for d in ds_arr])
TotalLength(frames, ds_arr) ==
    Len(Concat([k \in DOMAIN ds_arr |-> frames[ds_arr[k]].rows]))

\* ydf.values.tolist(): per row, the values of its columns in column order
RowLists(columns, h, length) ==
    [r \in 1..length |-> [t \in 1..h |-> columns[t - 1][r]]]

\* lines 122-132: ds is one EncodedDs or a ConcatedEncodedDs of several
ARCallStart ==
    /\ ar_pc = "fit_done"
    /\ \E ds_arr \in {<<1>>, <<2>>, <<1, 2>>} :
         /\ ar_ds_arr' = ds_arr
         /\ ar_original_dfs' = CopyFrames(ar_frames, ds_arr)
         /\ ar_ydf' = [columns |-> [t \in 0..(ar_cfg.n_ts_predictions - 1) |->
                                      [r \in 1..TotalLength(ar_frames, ds_arr) |-> 0]],
                       prediction |-> <<>>]
    /\ ar_timestep' = 0
    /\ ar_i' = 0
    /\ ar_all_predictions' = <<>>
    /\ ar_pre' = ar_frames
    /\ ar_log' = <<>>
    /\ ar_steps' = <<>>
    /\ ar_pc' = "call_loop"
    /\ UNCHANGED <<ar_cfg, ar_frames, ar_model, ar_saved_optuna>>

\* lines 136-143: one dataset of one timestep
ARCallStep ==
    /\ ar_pc = "call_loop"
    /\ CallHasStep(ar_timestep, ar_cfg.n_ts_predictions)
    /\ \/ \* super().__call__ raises
          /\ ar_pc' = "call_raised"
          /\ UNCHANGED <<ar_frames, ar_timestep, ar_i, ar_all_predictions, ar_ydf,
                         ar_log, ar_steps>>
       \/ LET f == ar_ds_arr[ar_i + 1]
              predictions == BasePredict(ar_model, ar_frames[f])
              collected == Append(ar_all_predictions, predictions)
              displaces == CallDisplaces(ar_timestep, ar_cfg.n_ts_predictions)
              displaced == DisplaceDs(ar_frames[f], predictions, ar_timestep + 1, ar_cfg)
          IN /\ ar_frames' =
                    IF displaces
                    THEN [ar_frames EXCEPT ![f] = displaced]
                    ELSE ar_frames
             /\ ar_steps' = ar_steps \o
                   <<PredictStep(f, ar_timestep, ar_frames[f], predictions)>> \o
                   (IF displaces
                    THEN <<DisplaceStep(f, ar_timestep + 1, ar_frames[f],
                                        predictions, displaced)>>
                    ELSE <<>>)
             /\ ar_log' = ar_log \o (IF displaces THEN <<"predict", "displace">>
                                                  ELSE <<"predict">>)
             /\ IF ar_i + 1 = Len(ar_ds_arr)
                THEN /\ ar_ydf' = [ar_ydf EXCEPT !.columns[ar_timestep] =
                                                     Concat(collected)]
                     /\ ar_timestep' = ar_timestep + 1
                     /\ ar_i' = 0
                     /\ ar_all_predictions' = <<>>
                ELSE /\ ar_i' = ar_i + 1
                     /\ ar_all_predictions' = collected
                     /\ UNCHANGED <<ar_ydf, ar_timestep>>
             /\ ar_pc' = ar_pc
    /\ UNCHANGED <<ar_cfg, ar_model, ar_ds_arr, ar_original_dfs, ar_saved_optuna,
                   ar_pre>>

\* lines 145-150
ARCallFinish ==
    /\ ar_pc = "call_loop"
    /\ ~CallHasStep(ar_timestep, ar_cfg.n_ts_predictions)
    /\ ar_frames' = RestoreAfterCall(ar_frames, ar_ds_arr, ar_original_dfs)
    /\ ar_ydf' = [ar_ydf EXCEPT !.prediction =
                    RowLists(ar_ydf.columns, ar_cfg.n_ts_predictions,
                             TotalLength(ar_frames, ar_ds_arr))]
    /\ ar_pc' = "call_done"
    /\ UNCHANGED <<ar_cfg, ar_model, ar_ds_arr, ar_original_dfs, ar_timestep, ar_i,
                   ar_all_predictions, ar_saved_optuna, ar_pre, ar_log, ar_steps>>

\* ---- the datasets
\* an encoded time-series frame of n rows; labelled frames carry the
\* per-step target columns, inference frames do not
MakeFrame(ds, n, labelled, has_hist, h) ==
    LET columns == {TargetCol, OrderCol, GroupCol}
                     \cup (IF has_hist THEN {HistCol} ELSE {})
                     \cup (IF labelled THEN {TimestepCol(k) : k \in 1..(h - 1)} ELSE {})
        cell(r, c) ==
            CASE c = TargetCol -> 10 * ds + r
              [] c = OrderCol -> <<2 * r, 2 * r + 1>>
              [] c = GroupCol -> IF r % 2 = 1 THEN "A" ELSE "B"
              [] c = HistCol -> <<r, r + ds, r + 2 * ds + 1>>
              [] OTHER -> 100 * (CHOOSE k \in 1..h : TimestepCol(k) = c) + 10 * ds + r
    IN [columns |-> columns,
        rows |-> [r \in 1..n |-> [c \in columns |-> cell(r, c)]]]

ARConfigs ==
    [n_ts_predictions : 1..MaxARH,
     exhaustive_fitting : BOOLEAN,
     group_by : {<<>>, <<GroupCol>>},
     order_by : {<<OrderCol>>},
     deltas : {Deltas}]

ARInit ==
    /\ ar_cfg \in ARConfigs
    /\ \E n1 \in 1..MaxARRows, n2 \in 1..MaxARRows, labelled \in BOOLEAN,
          has_hist \in BOOLEAN :
         ar_frames = <<MakeFrame(1, n1, labelled, has_hist, ar_cfg.n_ts_predictions),
                       MakeFrame(2, n2, labelled, has_hist, ar_cfg.n_ts_predictions)>>
    /\ ar_pc = "idle"
    /\ ar_model = [fits |-> 0, use_optuna |-> TRUE]
    /\ ar_ds_arr = <<>>
    /\ ar_original_dfs = <<>>
    /\ ar_timestep = 0
    /\ ar_i = 0
    /\ ar_all_predictions = <<>>
    /\ ar_ydf = [columns |-> <<>>, prediction |-> <<>>]
    /\ ar_saved_optuna = TRUE
    /\ ar_pre = <<>>
    /\ ar_log = <<>>
    /\ ar_steps = <<>>


\* ======================================================= LightGBMArray
VARIABLES
    d_cfg,        \* constructor arguments (fixed after Init)
    d_pc,         \* "idle" | "fit_loop" | "fit_done" | "fit_raised" |
                  \* "call_loop" | "call_done"
    d_frames,     \* data_frame of train_data (1) and dev_data (2)
    d_models,     \* self.models: one LightGBM per timestep (position t + 1)
    d_method,     \* "fit" | "partial_fit": the handler that is running
    d_timestep,   \* timestep of the running loop
    d_ds_arr,     \* the datasets handed to __call__, as positions in d_frames
    d_ydf,        \* ydf: [columns: names in order, data: name -> rows]
    d_out,        \* the returned column 'prediction'
    d_pre         \* history: the frames as they were when the handler started

d_vars == <<d_cfg, d_pc, d_frames, d_models, d_method, d_timestep, d_ds_arr,
            d_ydf, d_out, d_pre>>

\* the column name f'prediction_{i}' is the number i
PredictionCol(i) == i

\* target column of a frame, as a list
ColumnValues(frame, c) == [r \in DOMAIN frame.rows |-> frame.rows[r][c]]

\* frame[dst] = frame[src]
AssignColumn(frame, dst, src) ==
    [columns |-> frame.columns \cup {dst},
     rows |-> [r \in DOMAIN frame.rows |->
                 [c \in frame.columns \cup {dst} |->
                    IF c = dst THEN frame.rows[r][src] ELSE frame.rows[r][c]]]]

\* lines 41-43 (51-53): the frames the regressor of timestep is trained on
SubstituteTarget(frames, timestep) ==
    IF timestep > 0
    THEN [f \in DOMAIN frames |->
            AssignColumn(frames[f], TargetCol, TimestepCol(timestep))]
    ELSE frames

\* LightGBM.fit / LightGBM.partial_fit of one regressor: it has seen the
\* target columns of train and dev
SubmodelFit(model, method, frames) ==
    [fitted |-> TRUE,
     calls |-> Append(model.calls, method),
     labels |-> [f \in DOMAIN frames |-> ColumnValues(frames[f], TargetCol)]]

\* self.models[timestep](ds, args): one value per row of ds
SubmodelCall(models, timestep, length) ==
    [r \in 1..length |-> 100 * Len(models[timestep + 1].calls) + 10 * timestep + r]

\* variant that assigns the column of the next timestep
StepColumnShifted(timestep) == PredictionCol(timestep + 1)

\* the column line 68 assigns at timestep
StepColumn(timestep) == PredictionCol(timestep)

\* ydf[name] = values: replaces the column, or appends a new one
SetColumn(ydf, name, values) ==
    [columns |-> IF name \in Range(ydf.columns) THEN ydf.columns
                 ELSE Append(ydf.columns, name),
     data |-> [c \in Range(ydf.columns) \cup {name} |->
                 IF c = name THEN values ELSE ydf.data[c]]]

\* ydf.values.tolist()
ValuesToList(ydf, length) ==
    [r \in 1..length |-> [k \in DOMAIN ydf.columns |-> ydf.data[ydf.columns[k]][r]]]

\* range(self.n_ts_predictions) has a step left at timestep
DirectHasStep(timestep, h) == timestep < h

\* lines 41-45 (51-55): the body of the loop for one timestep, on the frames
\* and regressors it finds
DirectFitStep(state, timestep, method) ==
    LET substituted == SubstituteTarget(state.frames, timestep)
    IN [frames |-> substituted,
        models |-> [state.models EXCEPT ![timestep + 1] =
                       SubmodelFit(@, method, substituted)]]

RECURSIVE DirectFitSteps(_, _, _)
\* the loop bodies of the timesteps in order, run one after the other
DirectFitSteps(state, order, method) ==
    IF order = <<>> THEN state
    ELSE DirectFitSteps(DirectFitStep(state, Head(order), method), Tail(order), method)

\* fit(train_data, dev_data) or partial_fit(train_data, dev_data) starts
DFitStart ==
    /\ d_pc \in {"idle", "fit_done"}
    /\ d_method' = IF d_pc = "idle" THEN "fit" ELSE "partial_fit"
    /\ Len(d_models[1].calls) < MaxDFits
    /\ d_timestep' = 0
    /\ d_pre' = d_frames
    /\ d_pc' = "fit_loop"
    /\ UNCHANGED <<d_cfg, d_frames, d_models, d_ds_arr, d_ydf, d_out>>

\* lines 40-45 (50-55): one timestep
DFitStep ==
    /\ d_pc = "fit_loop"
    /\ DirectHasStep(d_timestep, d_cfg.n_ts_predictions)
    /\ d_frames' = SubstituteTarget(d_frames, d_timestep)
    /\ \/ \* the regressor's fit raises
          /\ d_pc' = "fit_raised"
          /\ UNCHANGED <<d_models, d_timestep>>
       \/ /\ d_models' = [d_models EXCEPT ![d_timestep + 1] =
                            SubmodelFit(@, d_method,
                                        SubstituteTarget(d_frames, d_timestep))]
          /\ d_timestep' = d_timestep + 1
          /\ d_pc' = d_pc
    /\ UNCHANGED <<d_cfg, d_method, d_ds_arr, d_ydf, d_out, d_pre>>

DFitFinish ==
    /\ d_pc = "fit_loop"
    /\ ~DirectHasStep(d_timestep, d_cfg.n_ts_predictions)
    /\ d_pc' = "fit_done"
    /\ UNCHANGED <<d_cfg, d_frames, d_models, d_method, d_timestep, d_ds_arr,
                   d_ydf, d_out, d_pre>>

\* lines 59-65: ds is one EncodedDs or a ConcatedEncodedDs
DCallStart ==
    /\ d_pc = "fit_done"
    /\ \E ds_arr \in {<<1>>, <<2>>, <<1, 2>>} :
         /\ d_ds_arr' = ds_arr
         /\ d_ydf' = [columns |-> [i \in 1..d_cfg.n_ts_predictions |->
                                     PredictionCol(i - 1)],
                      data |-> [c \in {PredictionCol(i) :
                                         i \in 0..(d_cfg.n_ts_predictions - 1)} |->
                                  [r \in 1..TotalLength(d_frames, ds_arr) |-> 0]]]
    /\ d_timestep' = 0
    /\ d_out' = <<>>
    /\ d_pc' = "call_loop"
    /\ UNCHANGED <<d_cfg, d_frames, d_models, d_method, d_pre>>

\* lines 67-68: one timestep
DCallStep ==
    /\ d_pc = "call_loop"
    /\ DirectHasStep(d_timestep, d_cfg.n_ts_predictions)
    /\ d_ydf' = SetColumn(d_ydf, StepColumn(d_timestep),
                          SubmodelCall(d_models, d_timestep,
                                       TotalLength(d_frames, d_ds_arr)))
    /\ d_timestep' = d_timestep + 1
    /\ UNCHANGED <<d_cfg, d_pc, d_frames, d_models, d_method, d_ds_arr, d_out, d_pre>>

\* lines 70-71
DCallFinish ==
    /\ d_pc = "call_loop"
    /\ ~DirectHasStep(d_timestep, d_cfg.n_ts_predictions)
    /\ d_out' = ValuesToList(d_ydf, TotalLength(d_frames, d_ds_arr))
    /\ d_pc' = "call_done"
    /\ UNCHANGED <<d_cfg, d_frames, d_models, d_method, d_timestep, d_ds_arr,
                   d_ydf, d_pre>>

DInit ==
    /\ d_cfg \in [n_ts_predictions : 1..MaxDH]
    /\ \E n1 \in 1..MaxDRows, n2 \in 1..MaxDRows :
         d_frames = <<MakeFrame(1, n1, TRUE, TRUE, d_cfg.n_ts_predictions),
                      MakeFrame(2, n2, TRUE, TRUE, d_cfg.n_ts_predictions)>>
    /\ d_pc = "idle"
    /\ d_models = [t \in 1..d_cfg.n_ts_predictions |->
                     [fitted |-> FALSE, calls |-> <<>>, labels |-> <<>>]]
    /\ d_method = "fit"
    /\ d_timestep = 0
    /\ d_ds_arr = <<>>
    /\ d_ydf = [columns |-> <<>>, data |-> <<>>]
    /\ d_out = <<>>
    /\ d_pre = <<>>


\* ============================================ get_group_matches alone
VARIABLES
    gm_data,      \* the dict handed to get_group_matches
    gm_comb,      \* the combination of the last call
    gm_result,    \* what the last call returned: [idxs, data]
    gm_calls,     \* calls made so far
    gm_pre,       \* history: the dict as it was before the last call
    gm_group      \* the group the caller asked for: [frozen, labels], labels
                  \* in the order of the grouping columns

gm_vars == <<gm_data, gm_comb, gm_result, gm_calls, gm_pre, gm_group>>

GMColumns == <<"g1", "g2">>

GMKeys == {SubSeq(GMColumns, 1, k) : k \in 0..Len(GMColumns)}

\* the combinations tried: the sentinel and every tuple of 0..2 labels
GMCombinations ==
    {DefaultComb} \cup {TupleComb(t) : t \in UNION {Tuples(Labels, k) : k \in 0..2}}

GMDicts ==
    UNION {
      {[data |-> [kind |-> kind, values |-> [i \in 1..n |-> 10 + i]],
        keys |-> keys,
        group_info |-> info] :
          kind \in {"Series", "ndarray1d", "ndarray2d"},
          info \in [Range(keys) -> [1..n -> Labels]]} :
      keys \in GMKeys, n \in 1..MaxGMRows}

\* the ways a caller hands a group over: the sentinel, a tuple of labels in
\* column order (SkTime.__call__, line 228), or a frozenset of the labels
\* (SkTime._fit, line 170), which zip iterates in an order of its own
GMRequests ==
    {[group |-> [frozen |-> FALSE, labels |-> c.vals], combination |-> c] :
        c \in GMCombinations}
    \cup
    {[group |-> [frozen |-> TRUE, labels |-> t], combination |-> TupleComb(e)] :
        t \in UNION {Tuples(Labels, k) : k \in 0..2},
        e \in UNION {Tuples(Labels, k) : k \in 0..2}}

GMCall ==
    /\ gm_calls < MaxGMCalls
    /\ \E req \in {q \in GMRequests :
                      q.group.frozen =>
                         q.combination.vals \in Enumerations(Range(q.group.labels))} :
         LET m == GetGroupMatches(gm_data, req.combination)
         IN /\ gm_comb' = req.combination
            /\ gm_group' = req.group
            /\ gm_result' = [idxs |-> m.idxs, data |-> m.data]
            /\ gm_data' = [gm_data EXCEPT !.data = m.entry]
    /\ gm_pre' = gm_data
    /\ gm_calls' = gm_calls + 1

GMInit ==
    /\ gm_data \in GMDicts
    /\ gm_comb = DefaultComb
    /\ gm_result = [idxs |-> <<>>, data |-> <<>>]
    /\ gm_calls = 0
    /\ gm_pre = gm_data
    /\ gm_group = [frozen |-> FALSE, labels |-> <<>>]

\* ================= SkTime: fit with hyperparameter search, partial_fit
\* The trial's and the final _fit are taken whole here (the loop over the
\* groups is unfolded by FitAll); the grouping is by at most one column, so a
\* frozenset key has one enumeration. The search is explored on ungrouped
\* tasks, fit without search and partial_fit on grouped ones as well.
VARIABLES
    hs_cfg,       \* constructor arguments and ts_analysis (fixed after Init)
    hs_train,     \* train_data: one tuple of group labels per row
    hs_dev,       \* dev_data
    hs_pc,        \* "init" | "searching" | "final" | "ready" | "fit_raised"
    hs_method,    \* "fit" | "partial_fit": the method in progress or last run
    hs_search,    \* self.hyperparam_search
    hs_study,     \* self.study: [exists, trials]; a trial is [class, value, raised]
    hs_dict,      \* self.hyperparam_dict['class'], <<>> while the dict is empty
    hs_models,    \* self.models
    hs_grid,      \* the candidates the grid sampler has not suggested yet
    hs_module,    \* history: the module_name of every _fit so far, with its caller
    hs_fits,      \* calls of fit and partial_fit so far
    hs_gen,       \* history: for every key of self.models, the pass of _fit
                  \* (its position in hs_module) that created the object
                  \* stored under it
    hs_out        \* the last call of the mixer: what it returned and, as
                  \* history, the table it found

hs_vars == <<hs_cfg, hs_train, hs_dev, hs_pc, hs_method, hs_search, hs_study,
             hs_dict, hs_models, hs_grid, hs_module, hs_fits, hs_gen, hs_out>>

\* self.possible_models
PossibleModels == <<"ets.AutoETS", "theta.ThetaForecaster", "arima.AutoARIMA">>

\* self.n_trials
NTrials == Len(PossibleModels)

\* a trial's value: np.inf, or a finite symmetric MAPE
Inf == [inf |-> TRUE, v |-> 0]

Finite(v) == [inf |-> FALSE, v |-> v]

Less(a, b) == ~a.inf /\ (b.inf \/ a.v < b.v)

NoStudy == [exists |-> FALSE, trials |-> <<>>]

NewStudy == [exists |-> TRUE, trials |-> <<>>]

\* line 126: every one of the n_trials trials has finished (the running trial
\* is not among hs_study.trials)
FinishedStudy(study) == Len(study.trials) = NTrials

\* study.best_params['class']: the first trial, in the order they completed,
\* that no other trial beats (direction 'minimize')
BestParams(study) ==
    LET best == CHOOSE i \in DOMAIN study.trials :
                   /\ \A j \in DOMAIN study.trials :
                         ~Less(study.trials[j].value, study.trials[i].value)
                   /\ \A j \in 1..(i - 1) :
                         Less(study.trials[i].value, study.trials[j].value)
    IN study.trials[best].class

\* variant that takes the configured model_path whatever the study says
ModuleNameConfigured(search, study, dict, model_path) == model_path

\* lines 123-131: the forecaster family _fit uses
ModuleName(search, study, dict, model_path) ==
    IF ~search /\ ~study.exists
    THEN model_path
    ELSE IF FinishedStudy(study) THEN BestParams(study) ELSE dict

RECURSIVE FitAll(_, _, _, _, _)
\* the loop of _fit over groups with the given outcome of each group's
\* try/except: the model table it leaves, whether an exception left it, and
\* the keys line 162 (or 185) assigned a new object to
FitAll(models, data, cfg, groups, outcomes) ==
    IF groups = <<>> THEN [models |-> models, raised |-> FALSE, assigned |-> {}]
    ELSE LET group == Head(groups)
             enum == CHOOSE e \in Enumerations(group.vals) : TRUE
             after == FitOneGroup(models, data, cfg, group, enum, Head(outcomes))
         IN IF FitOneGroupRaises(data, cfg, group, enum, Head(outcomes))
            THEN [models |-> after, raised |-> TRUE, assigned |-> {group}]
            ELSE LET rest == FitAll(after, data, cfg, Tail(groups), Tail(outcomes))
                 IN [rest EXCEPT !.assigned = @ \cup {group}]

\* _fit(data) with the family ModuleName gives
FitWith(models, rows, cfg, module_name, outcomes) ==
    FitAll(models, DataDict(rows, {}, cfg.group_by),
           [cfg EXCEPT !.model_path = module_name],
           cfg.group_combinations, outcomes)

\* the creating pass of every key after pass number pass assigned the keys
Created(gen, assigned, pass) ==
    [key \in (DOMAIN gen) \cup assigned |->
        IF key \in assigned THEN pass ELSE gen[key]]

\* self(test_data) raises: some row's forecaster is missing or was never fitted
CallRaises(models, ds) ==
    \E r \in DOMAIN ds :
        LET key == ResolveForecaster(models, FrozenSet(ds[r]))
        IN ~(key \in DOMAIN models /\ models[key].is_fitted)

\* variant that scores a failed trial as a perfect one
TrialErrorZero(raised, error) == Finite(IF raised THEN 0 ELSE error)

\* lines 291-301: the value a trial returns
TrialError(raised, error) == IF raised THEN Inf ELSE Finite(error)

\* the grid sampler's unvisited candidates after cls was suggested
Suggest(grid, cls) == grid \ {cls}

HsOutcomes == Tuples(FitOutcomes, Len(hs_cfg.group_combinations))

\* fit(train_data, dev_data): lines 103-105, or line 110
HsFitStart ==
    /\ hs_pc = "init"
    /\ hs_method' = "fit"
    /\ hs_fits' = hs_fits + 1
    /\ IF hs_search
       THEN /\ hs_study' = NewStudy
            /\ hs_grid' = Range(PossibleModels)
            /\ hs_pc' = "searching"
       ELSE /\ hs_pc' = "final"
            /\ UNCHANGED <<hs_study, hs_grid>>
    /\ UNCHANGED <<hs_cfg, hs_train, hs_dev, hs_search, hs_dict, hs_models, hs_module,
                   hs_gen, hs_out>>

\* one trial of study.optimize: _get_best_model(trial, train_data, dev_data)
HsTrial ==
    /\ hs_pc = "searching"
    /\ hs_grid # {}
    /\ \E cls \in hs_grid, outcomes \in HsOutcomes, scored \in BOOLEAN,
          error \in 1..MaxError :
         LET module_name == ModuleName(hs_search, hs_study, cls, hs_cfg.model_path)
             f == FitWith(hs_models, hs_train, hs_cfg, module_name, outcomes)
             raised == f.raised \/ CallRaises(f.models, hs_dev) \/ ~scored
         IN /\ hs_dict' = cls
            /\ hs_models' = f.models
            /\ hs_gen' = Created(hs_gen, f.assigned, Len(hs_module) + 1)
            /\ hs_module' = Append(hs_module, [by |-> "trial", class |-> module_name])
            /\ hs_study' = [hs_study EXCEPT !.trials =
                               Append(@, [class |-> cls,
                                          value |-> TrialError(raised, error),
                                          raised |-> raised])]
            /\ hs_grid' = Suggest(hs_grid, cls)
            /\ hs_pc' = IF Len(hs_study.trials) + 1 >= NTrials
                        THEN "final" ELSE "searching"
    /\ UNCHANGED <<hs_cfg, hs_train, hs_dev, hs_method, hs_search, hs_fits, hs_out>>

\* lines 107-108 or 111-112: _fit(ConcatedEncodedDs([train_data, dev_data]));
\* line 118 sorts the rows by time, so partial_fit's swapped arguments give
\* the same rows in the same order
HsFinalFit ==
    /\ hs_pc = "final"
    /\ \E outcomes \in HsOutcomes :
         LET module_name == ModuleName(hs_search, hs_study, hs_dict, hs_cfg.model_path)
             f == FitWith(hs_models, hs_train \o hs_dev, hs_cfg, module_name, outcomes)
         IN /\ hs_models' = f.models
            /\ hs_gen' = Created(hs_gen, f.assigned, Len(hs_module) + 1)
            /\ hs_module' = Append(hs_module, [by |-> hs_method, class |-> module_name])
            /\ hs_pc' = IF f.raised THEN "fit_raised" ELSE "ready"
    /\ UNCHANGED <<hs_cfg, hs_train, hs_dev, hs_method, hs_search, hs_study,
                   hs_dict, hs_grid, hs_fits, hs_out>>

\* partial_fit(train_data, dev_data): lines 199-200
HsPartialFit ==
    /\ hs_pc = "ready"
    /\ hs_fits < MaxHsFits
    /\ hs_search' = FALSE
    /\ hs_method' = "partial_fit"
    /\ hs_fits' = hs_fits + 1
    /\ hs_pc' = "final"
    /\ UNCHANGED <<hs_cfg, hs_train, hs_dev, hs_study, hs_dict, hs_models,
                   hs_grid, hs_module, hs_gen, hs_out>>

RECURSIVE CallGroups(_, _, _, _, _, _)
\* the loop `for group in all_group_combinations` of __call__ on the groups
\* left: the output frame and pending_idxs it leaves
CallGroups(state, models, ds, cfg, offset, groups) ==
    IF groups = <<>> THEN state
    ELSE LET group == Head(groups)
             m == GetGroupMatches(DataDict(ds, {}, cfg.group_by), TupleComb(group))
             series_idxs == SortedSeq(Range(m.idxs))
             key == ResolveForecaster(models, FrozenSet(group))
             served == [ydf |-> CallGroupModel(state.ydf, models, key, series_idxs,
                                               offset, cfg.n_ts_predictions),
                        pending |-> StillPending(state.pending, series_idxs)]
         IN CallGroups(IF Len(m.data) > 0 THEN served ELSE state,
                       models, ds, cfg, offset, Tail(groups))

\* self(ds, args) returning normally: the column 'prediction'
CallAll(models, ds, cfg, offset) ==
    LET groups == CHOOSE e \in Enumerations(
                      AllGroupCombinations(DataDict(ds, {}, cfg.group_by))) : TRUE
        after == CallGroups([ydf |-> [r \in 1..Len(ds) |-> ZeroCell],
                             pending |-> 0..(Len(ds) - 1)],
                            models, ds, cfg, offset, groups)
    IN IF after.pending # {}
       THEN CallGroupModel(after.ydf, models, DefaultKey, SortedSeq(after.pending),
                           offset, cfg.n_ts_predictions)
       ELSE after.ydf

NoCall == [called |-> FALSE]

\* __call__(ds) on a fitted mixer: lines 203-247 assign nothing to self.models
HsCall ==
    /\ hs_pc = "ready"
    /\ IF hs_out.called THEN hs_out.passes < Len(hs_module) ELSE TRUE
    /\ hs_out' = [called |-> TRUE,
                  passes |-> Len(hs_module),
                  models |-> hs_models,
                  gen |-> hs_gen,
                  raised |-> CallRaises(hs_models, hs_dev),
                  ydf |-> IF CallRaises(hs_models, hs_dev) THEN <<>>
                          ELSE CallAll(hs_models, hs_dev, hs_cfg, 0)]
    /\ UNCHANGED <<hs_cfg, hs_train, hs_dev, hs_pc, hs_method, hs_search, hs_study,
                   hs_dict, hs_models, hs_grid, hs_module, hs_fits, hs_gen>>

HsConfigs ==
    [group_by : {SubSeq(GroupColumns, 1, k) : k \in 0..Len(GroupColumns)},
     window : 0..MaxWindow,
     n_ts_predictions : {MaxH},
     model_path : ModelClasses,
     auto_size : {TRUE},
     sp : {1}]

HsInit ==
    /\ \E c \in HsConfigs :
         \E train \in TrainFrames(c.group_by, MaxHsRows), dev \in Frames(c.group_by, 1) :
            /\ hs_train = train
            /\ hs_dev = dev
            /\ \E order \in GroupCombinations(train \o dev) :
                  hs_cfg = [group_by |-> c.group_by, window |-> c.window,
                            n_ts_predictions |-> c.n_ts_predictions,
                            model_path |-> c.model_path, auto_size |-> c.auto_size,
                            sp |-> c.sp, group_combinations |-> order]
    /\ hs_pc = "init"
    /\ hs_method = "fit"
    /\ hs_search \in BOOLEAN
    /\ hs_search => hs_cfg.group_by = <<>>
    /\ hs_study = NoStudy
    /\ hs_dict = <<>>
    /\ hs_models = <<>>
    /\ hs_grid = {}
    /\ hs_module = <<>>
    /\ hs_fits = 0
    /\ hs_gen = <<>>
    /\ hs_out = NoCall

\* =============================================================== mase
VARIABLES
    ms_trues,     \* the caller's array trues: rows of fh cells, a cell is [nan, v]
    ms_preds,     \* the caller's array preds: rows of fh numbers
    ms_args,      \* history: trues and preds as they were passed to the call
    ms_scale,     \* scale_error
    ms_fh,        \* fh
    ms_result,    \* the returned quotient as [num, den], num / den
    ms_pc         \* "idle" | "done"

ms_vars == <<ms_trues, ms_preds, ms_args, ms_scale, ms_fh, ms_result, ms_pc>>

Abs(x) == IF x < 0 THEN -x ELSE x

RECURSIVE SumSeq(_)
SumSeq(s) == IF s = <<>> THEN 0 ELSE Head(s) + SumSeq(Tail(s))

\* variant without the guard of lines 197-198
EffectiveScaleUnguarded(scale_error) == scale_error

\* lines 197-198
EffectiveScale(scale_error) == IF scale_error = 0 THEN 1 ELSE scale_error

\* (~np.isnan(trues)).astype(int)
NanMask(trues) ==
    [r \in DOMAIN trues |-> [i \in DOMAIN trues[r] |-> IF trues[r][i].nan THEN 0 ELSE 1]]

\* line 201, preds *= nan_mask: the caller's preds afterwards
MaskPreds(preds, nan_mask) ==
    [r \in DOMAIN preds |-> [i \in DOMAIN preds[r] |-> preds[r][i] * nan_mask[r][i]]]

\* line 202, np.nan_to_num(trues, 0.0): the second positional parameter is
\* copy, so the NaNs of the caller's trues are replaced in place
NanToNum(trues) ==
    [r \in DOMAIN trues |-> [i \in DOMAIN trues[r] |->
        IF trues[r][i].nan THEN Num(0) ELSE trues[r][i]]]

\* the numbers of an array without NaN
Values(trues) ==
    [r \in DOMAIN trues |-> [i \in DOMAIN trues[r] |-> trues[r][i].v]]

\* mean_absolute_error(true, pred) times the number of rows
AbsoluteErrorSum(trues, preds, i) ==
    SumSeq([r \in DOMAIN trues |-> Abs(trues[r][i] - preds[r][i])])

\* mase(trues, preds, scale_error, fh): (agg / fh) / scale_error as a fraction
\* over the common denominator rows * fh * scale
Mase(trues, preds, scale_error, fh) ==
    LET scale == EffectiveScale(scale_error)
        nan_mask == NanMask(trues)
        masked == MaskPreds(preds, nan_mask)
        clean == Values(NanToNum(trues))
        agg == SumSeq([i \in 1..fh |-> AbsoluteErrorSum(clean, masked, i)])
    IN [num |-> agg, den |-> Len(trues) * fh * scale]

MaseCall ==
    /\ ms_pc = "idle"
    /\ ms_result' = Mase(ms_trues, ms_preds, ms_scale, ms_fh)
    /\ ms_args' = [trues |-> ms_trues, preds |-> ms_preds]
    /\ ms_preds' = MaskPreds(ms_preds, NanMask(ms_trues))
    /\ ms_trues' = NanToNum(ms_trues)
    /\ ms_pc' = "done"
    /\ UNCHANGED <<ms_scale, ms_fh>>

\* the cells of trues tried: a missing value, zero and one
TrueCells == {NaN, Num(0), Num(1)}

\* any trues over TrueCells, against preds that forecast the same value in
\* every cell
MaseInit ==
    /\ ms_fh \in 1..MaxMaseFh
    /\ \E n \in 1..MaxMaseRows, p \in 0..MaxMaseValue :
         /\ ms_trues \in [1..n -> [1..ms_fh -> TrueCells]]
         /\ ms_preds = [r \in 1..n |-> [i \in 1..ms_fh |-> p]]
    /\ ms_args = <<>>
    /\ ms_scale \in 0..MaxScale
    /\ ms_result = [num |-> 0, den |-> 1]
    /\ ms_pc = "idle"

\* ====================================================== specifications
vars == <<sk_vars, ar_vars, d_vars, gm_vars, hs_vars, ms_vars>>

\* a component nobody has constructed
SkOff ==
    /\ sk_cfg = [group_by |-> <<>>] /\ sk_train = <<>> /\ sk_missing = {}
    /\ sk_pc = "off"
    /\ sk_models = <<>> /\ sk_todo = <<>> /\ sk_ds = <<>> /\ sk_offset = 0
    /\ sk_ydf = <<>> /\ sk_pending = {} /\ sk_groups = {} /\ sk_log = <<>>
    /\ sk_writes = <<>>

AROff ==
    /\ ar_cfg = [n_ts_predictions |-> 1] /\ ar_pc = "off" /\ ar_frames = <<>>
    /\ ar_model = [fits |-> 0, use_optuna |-> TRUE] /\ ar_ds_arr = <<>>
    /\ ar_original_dfs = <<>> /\ ar_timestep = 0 /\ ar_i = 0
    /\ ar_all_predictions = <<>> /\ ar_ydf = [columns |-> <<>>, prediction |-> <<>>]
    /\ ar_saved_optuna = TRUE /\ ar_pre = <<>> /\ ar_log = <<>>
    /\ ar_steps = <<>>

DOff ==
    /\ d_cfg = [n_ts_predictions |-> 1] /\ d_pc = "off" /\ d_frames = <<>>
    /\ d_models = <<>> /\ d_method = "fit" /\ d_timestep = 0 /\ d_ds_arr = <<>>
    /\ d_ydf = [columns |-> <<>>, data |-> <<>>] /\ d_out = <<>> /\ d_pre = <<>>

GMOff ==
    /\ gm_data = [data |-> [kind |-> "Series", values |-> <<>>], keys |-> <<>>,
                  group_info |-> <<>>]
    /\ gm_comb = DefaultComb /\ gm_result = [idxs |-> <<>>, data |-> <<>>]
    /\ gm_calls = MaxGMCalls /\ gm_pre = gm_data
    /\ gm_group = [frozen |-> FALSE, labels |-> <<>>]

HsOff ==
    /\ hs_cfg = [group_by |-> <<>>] /\ hs_train = <<>> /\ hs_dev = <<>>
    /\ hs_pc = "off" /\ hs_method = "fit" /\ hs_search = FALSE
    /\ hs_study = NoStudy /\ hs_dict = <<>> /\ hs_models = <<>>
    /\ hs_grid = {} /\ hs_module = <<>> /\ hs_fits = 0
    /\ hs_gen = <<>> /\ hs_out = [called |-> FALSE]

MsOff ==
    /\ ms_trues = <<>> /\ ms_preds = <<>> /\ ms_args = <<>> /\ ms_scale = 0 /\ ms_fh = 1
    /\ ms_result = [num |-> 0, den |-> 1] /\ ms_pc = "off"

not_sk == <<ar_vars, d_vars, gm_vars, hs_vars, ms_vars>>

not_ar == <<sk_vars, d_vars, gm_vars, hs_vars, ms_vars>>

not_d == <<sk_vars, ar_vars, gm_vars, hs_vars, ms_vars>>

not_gm == <<sk_vars, ar_vars, d_vars, hs_vars, ms_vars>>

not_hs == <<sk_vars, ar_vars, d_vars, gm_vars, ms_vars>>

not_ms == <<sk_vars, ar_vars, d_vars, gm_vars, hs_vars>>

SkStep ==
    \/ SkFitStart /\ UNCHANGED not_sk
    \/ SkFitGroup /\ UNCHANGED not_sk
    \/ SkCallStart /\ UNCHANGED not_sk
    \/ SkCallGroup /\ UNCHANGED not_sk
    \/ SkCallFinish /\ UNCHANGED not_sk

ARStep ==
    \/ ARFitStart /\ UNCHANGED not_ar
    \/ ARFitDisplace /\ UNCHANGED not_ar
    \/ ARFitRefit /\ UNCHANGED not_ar
    \/ ARFitFinish /\ UNCHANGED not_ar
    \/ ARCallStart /\ UNCHANGED not_ar
    \/ ARCallStep /\ UNCHANGED not_ar
    \/ ARCallFinish /\ UNCHANGED not_ar

DStep ==
    \/ DFitStart /\ UNCHANGED not_d
    \/ DFitStep /\ UNCHANGED not_d
    \/ DFitFinish /\ UNCHANGED not_d
    \/ DCallStart /\ UNCHANGED not_d
    \/ DCallStep /\ UNCHANGED not_d
    \/ DCallFinish /\ UNCHANGED not_d

GMStep == GMCall /\ UNCHANGED not_gm

HsStep ==
    \/ HsFitStart /\ UNCHANGED not_hs
    \/ HsTrial /\ UNCHANGED not_hs
    \/ HsFinalFit /\ UNCHANGED not_hs
    \/ HsPartialFit /\ UNCHANGED not_hs
    \/ HsCall /\ UNCHANGED not_hs

MsStep == MaseCall /\ UNCHANGED not_ms

InitSk == SkInit /\ AROff /\ DOff /\ GMOff /\ HsOff /\ MsOff

InitAR == ARInit /\ SkOff /\ DOff /\ GMOff /\ HsOff /\ MsOff

InitD == DInit /\ SkOff /\ AROff /\ GMOff /\ HsOff /\ MsOff

InitGM == GMInit /\ SkOff /\ AROff /\ DOff /\ HsOff /\ MsOff

InitHs == HsInit /\ SkOff /\ AROff /\ DOff /\ GMOff /\ MsOff

InitMs == MaseInit /\ SkOff /\ AROff /\ DOff /\ GMOff /\ HsOff

\* the statistical mixer
SpecSk == InitSk /\ [][SkStep]_vars

\* the autoregressive mixer
SpecAR == InitAR /\ [][ARStep]_vars

\* the direct mixer
SpecD == InitD /\ [][DStep]_vars

\* get_group_matches called on its own
SpecGM == InitGM /\ [][GMStep]_vars

\* the statistical mixer's fit with its hyperparameter search, and partial_fit
SpecHs == InitHs /\ [][HsStep]_vars

\* mase called on its own
SpecMs == InitMs /\ [][MsStep]_vars

\* any one of the components
Init == InitSk \/ InitAR \/ InitD \/ InitGM \/ InitHs \/ InitMs

Next == SkStep \/ ARStep \/ DStep \/ GMStep \/ HsStep \/ MsStep

Spec == Init /\ [][Next]_vars

\* ============================================================== claims
\* ---- statistical mixer, __call__
\* the position of input row r (1-based) among the rows of its own group
\* combination, counted from 0 in input order
RankInGroup(ds, r) == Cardinality({q \in 1..(r - 1) : ds[q] = ds[r]})

\* the key a row's group combination is looked up under
RowKey(ds, r) == FrozenSet(ds[r])

HasFittedEntry(key) == key \in DOMAIN sk_models /\ sk_models[key].is_fitted

\* the forecaster that has to answer input row r
ExpectedModel(r) ==
    IF HasFittedEntry(RowKey(sk_ds, r)) THEN RowKey(sk_ds, r) ELSE DefaultKey

\* the forecast the forecaster under key produces for the k-th row of a series
ForecastOf(key, k) ==
    Forecast(key, StartIdx(k, sk_offset, MinOffset(sk_models[key])),
             EndIdx(k, sk_offset, sk_cfg.n_ts_predictions))

\* C1: in the statistical mixer's predict, the rows of a group combination
\* that has a fitted entry in the model table are forecast by that entry; the
\* rows of a combination with no entry or an unfitted entry receive exactly
\* the forecast the '__default' forecaster produces for them, and the call
\* raises only when the forecaster so resolved was never fitted.
C1_ModelResolution ==
    /\ sk_pc \in {"predicting", "done", "predict_raised"} =>
         \A r \in DOMAIN sk_ydf :
            ~sk_ydf[r].zero =>
               /\ HasFittedEntry(RowKey(sk_ds, r)) =>
                    sk_ydf[r].model = RowKey(sk_ds, r)
               /\ ~HasFittedEntry(RowKey(sk_ds, r)) =>
                    sk_ydf[r] = ForecastOf(DefaultKey, RankInGroup(sk_ds, r))
    /\ sk_pc = "predict_raised" => ~sk_models[DefaultKey].is_fitted

\* a finished call that served one row with its group's own forecaster and
\* another row, whose group has an unfitted entry, with the default one
C1_Witness ==
    /\ sk_pc = "done"
    /\ \E r1, r2 \in DOMAIN sk_ydf :
         /\ sk_ydf[r1].model = RowKey(sk_ds, r1)
         /\ RowKey(sk_ds, r2) \in DOMAIN sk_models
         /\ ~sk_models[RowKey(sk_ds, r2)].is_fitted
         /\ sk_ydf[r2].model = DefaultKey

\* C2: the statistical mixer's output has exactly one row per input row, and
\* output row r holds the forecast computed for input row r (by its position
\* within its group) by the forecaster resolved for row r's group, for any
\* interleaving of the groups in the input.
C2_RowOrderPreserved ==
    sk_pc = "done" =>
      /\ Len(sk_ydf) = Len(sk_ds)
      /\ \A r \in DOMAIN sk_ydf :
           sk_ydf[r] = ForecastOf(ExpectedModel(r), RankInGroup(sk_ds, r))

\* a finished call on three rows whose groups are interleaved (X, Y, X)
C2_Witness ==
    /\ sk_pc = "done"
    /\ Len(sk_ds) = 3
    /\ sk_ds[1] = sk_ds[3]
    /\ sk_ds[1] # sk_ds[2]
    /\ sk_ydf[3].model # sk_ydf[2].model

\* ---- statistical mixer, fit
\* C8: no exception leaves fit when a group's configured forecaster and the
\* retry with the parameter-free forecaster both raise.
C8_NoExceptionLeavesFit == sk_pc # "fit_raised"

\* C9: after any fit that returns, the model table holds a '__default' entry
\* fitted on the global series.
C9_DefaultAlwaysFitted ==
    sk_pc = "ready" =>
      /\ DefaultKey \in DOMAIN sk_models
      /\ sk_models[DefaultKey].is_fitted
      /\ sk_models[DefaultKey].series =
            SelectSeq([i \in 1..Len(sk_train) |->
                          [label |-> i - 1,
                           value |-> IF (i - 1) \in sk_missing THEN NaN ELSE Num(i - 1)]],
                      LAMBDA e : ~e.value.nan)

\* ---- autoregressive mixer
Count(log, what) == Cardinality({k \in DOMAIN log : log[k] = what})

RECURSIVE Repeat(_, _)
Repeat(block, n) == IF n <= 0 THEN <<>> ELSE block \o Repeat(block, n - 1)

\* C3: after LightGBMArrayAR.__call__ returns normally, every underlying
\* data frame has the column set, the row count and the cell values it had
\* before the call.
C3_CallRoundTrip == ar_pc = "call_done" => ar_frames = ar_pre

\* a finished call over two concatenated datasets that displaced them
C3_Witness ==
    /\ ar_pc = "call_done"
    /\ Len(ar_ds_arr) = 2
    /\ Count(ar_log, "displace") >= 2

\* C4: when a predict, a fit or a displacement raises part-way, the datasets
\* are back in their pre-displacement state as the exception leaves the mixer.
C4_RestoredOnError ==
    ar_pc \in {"fit_raised", "call_raised"} => ar_frames = ar_pre

\* C5: an exhaustive fit with horizon H fits once, then H-1 more times, each
\* refit preceded by one predict-and-displace pass over train and dev; with
\* exhaustive mode off the model is fitted exactly once.
C5_RefitCount ==
    ar_pc = "fit_done" =>
      /\ ar_model.fits =
            IF ar_cfg.exhaustive_fitting THEN 1 + (ar_cfg.n_ts_predictions - 1) ELSE 1
      /\ ar_log =
            <<"fit">> \o
            (IF ar_cfg.exhaustive_fitting
             THEN Repeat(<<"predict", "displace", "predict", "displace", "fit">>,
                         ar_cfg.n_ts_predictions - 1)
             ELSE <<>>)

\* an exhaustive fit with H = 3 that has returned after three fits
C5_Witness ==
    /\ ar_pc = "fit_done"
    /\ ar_cfg.exhaustive_fitting
    /\ ar_cfg.n_ts_predictions = 3
    /\ Count(ar_log, "fit") = 3

\* C6: after an exhaustive fit returns normally, every column of the train
\* and of the dev data frame, the target among them, has its value from
\* before the fit.
C6_FitRestoresFrames ==
    (ar_pc = "fit_done" /\ ar_cfg.exhaustive_fitting) => ar_frames = ar_pre

\* an exhaustive fit that displaced labelled datasets and has returned
C6_Witness ==
    /\ ar_pc = "fit_done"
    /\ ar_cfg.exhaustive_fitting
    /\ Count(ar_log, "displace") >= 2
    /\ TimestepCol(1) \in ar_frames[1].columns

\* ---- direct mixer
\* C7: the direct mixer's predict returns one row per input row, each holding
\* a list of exactly n_ts_predictions values, for a single and for a
\* concatenated dataset.
C7_VectorLength ==
    d_pc = "call_done" =>
      /\ Len(d_out) = TotalLength(d_frames, d_ds_arr)
      /\ \A r \in DOMAIN d_out : Len(d_out[r]) = d_cfg.n_ts_predictions

\* a finished call on a concatenated dataset with a horizon above one
C7_Witness ==
    /\ d_pc = "call_done"
    /\ Len(d_ds_arr) = 2
    /\ d_cfg.n_ts_predictions >= 2
    /\ Len(d_out) >= 2

\* ---- get_group_matches
\* C10: called with the sentinel '__default', get_group_matches returns the
\* row indices 0..n-1 in input order and all data values, whatever the labels.
C10_DefaultIsIdentity ==
    (gm_calls > 0 /\ gm_comb.sentinel) =>
      /\ gm_result.idxs = [i \in 1..Len(gm_pre.data.values) |-> i - 1]
      /\ gm_result.data = gm_pre.data.values

\* a call with the sentinel on two rows that carry different labels
C10_Witness ==
    /\ gm_calls > 0
    /\ gm_comb.sentinel
    /\ Len(gm_result.idxs) = 2
    /\ gm_pre.keys # <<>>
    /\ gm_pre.group_info[gm_pre.keys[1]][1] # gm_pre.group_info[gm_pre.keys[1]][2]

\* the rows of a dict whose label equals, in every grouping column, the
\* label the group has for that column
RowsOfGroup(data, labels) ==
    {i \in 0..(Len(data.data.values) - 1) :
        \A j \in DOMAIN data.keys :
            data.group_info[data.keys[j]][i + 1] = labels[j]}

\* C11: called with a combination other than the sentinel when the dict has
\* no grouping column, or when the combination carries no value,
\* get_group_matches returns an empty index list and empty data.
C11_NoColumnsEmptyResult ==
    (gm_calls > 0 /\ ~gm_comb.sentinel
       /\ (gm_pre.keys = <<>> \/ gm_comb.vals = <<>>)) =>
      gm_result = [idxs |-> <<>>, data |-> <<>>]

\* a call with a one-label tuple on a two-row dict without grouping columns
C11_Witness ==
    /\ gm_calls > 0
    /\ ~gm_comb.sentinel
    /\ Len(gm_comb.vals) = 1
    /\ gm_pre.keys = <<>>
    /\ Len(gm_pre.data.values) = 2
    /\ gm_result.idxs = <<>>

\* C12: for a combination other than the sentinel that has a label for every
\* grouping column, the returned indices are exactly the rows whose label
\* equals the combination's in every column, in whatever order the
\* combination's values are enumerated.
C12_FilterIsIntersection ==
    (gm_calls > 0 /\ ~gm_comb.sentinel /\ gm_pre.keys # <<>>
       /\ Len(gm_group.labels) = Len(gm_pre.keys)) =>
      /\ Range(gm_result.idxs) = RowsOfGroup(gm_pre, gm_group.labels)
      /\ Len(gm_result.idxs) = Cardinality(RowsOfGroup(gm_pre, gm_group.labels))

\* C13: a call to get_group_matches leaves the dict it was given (the data
\* entry and the label lists) as it was.
C13_InputUnchanged == gm_calls > 0 => gm_data = gm_pre

\* ---- statistical mixer, hyperparameter search
\* the _fit calls made outside a trial while a study exists
SelectedFits == {k \in DOMAIN hs_module : hs_module[k].by # "trial" /\ hs_study.exists}

TrialsOf(class) == {i \in DOMAIN hs_study.trials : hs_study.trials[i].class = class}

\* C14: the forecaster family used by a fit that follows the search is never
\* one whose trial recorded infinite error, whatever the trials' outcomes.
C14_InfiniteNeverSelected ==
    \A k \in SelectedFits :
       \A i \in TrialsOf(hs_module[k].class) : ~hs_study.trials[i].value.inf

\* C15: a trial in which fitting or predicting raised records infinite error
\* and the search goes on: by the time of the final fit every candidate of
\* the catalog has had exactly one trial.
C15_TrialsCaughtAndComplete ==
    /\ \A i \in DOMAIN hs_study.trials :
          hs_study.trials[i].raised => hs_study.trials[i].value = Inf
    /\ \A k \in SelectedFits :
          /\ Len(hs_study.trials) = NTrials
          /\ \A c \in Range(PossibleModels) : Cardinality(TrialsOf(c)) = 1
          /\ Cardinality({j \in 1..(k - 1) : hs_module[j].by = "trial"}) = NTrials

\* a fit that returned after a search whose first trial raised and whose
\* last trial was scored
C15_Witness ==
    /\ hs_pc = "ready"
    /\ hs_method = "fit"
    /\ Len(hs_study.trials) = NTrials
    /\ hs_study.trials[1].raised
    /\ ~hs_study.trials[NTrials].raised

\* ---- statistical mixer, length of a forecast
\* C16: every output row of the statistical mixer holds exactly
\* n_ts_predictions values, at every row position within its group and for
\* every forecast offset.
C16_ForecastLengthIsH ==
    sk_pc = "done" =>
      \A r \in DOMAIN sk_ydf :
         ~sk_ydf[r].zero /\ Len(sk_ydf[r].fh) = sk_cfg.n_ts_predictions

\* ---- direct mixer, fit
\* C17: the per-step fits of the direct mixer share no mutable state but the
\* model table: run in any order, the steps train each regressor on the same
\* labels as in the sequential order.
C17_StepOrderIrrelevant ==
    d_pc = "idle" =>
      \A order \in Enumerations(0..(d_cfg.n_ts_predictions - 1)) :
         DirectFitSteps([frames |-> d_frames, models |-> d_models], order, "fit").models
           = DirectFitSteps([frames |-> d_frames, models |-> d_models],
                            PyRange(d_cfg.n_ts_predictions), "fit").models

\* C18: fit and partial_fit of the direct mixer train step 0 on the target
\* column as it was before the call and step i > 0 on the labels of step i,
\* and when they return the target column of train and dev is as before.
C18_SubstitutionTemporary ==
    d_pc = "fit_done" =>
      /\ \A f \in DOMAIN d_frames :
            ColumnValues(d_frames[f], TargetCol) = ColumnValues(d_pre[f], TargetCol)
      /\ \A t \in 0..(d_cfg.n_ts_predictions - 1) :
            d_models[t + 1].labels =
               [f \in DOMAIN d_pre |->
                  ColumnValues(d_pre[f], IF t = 0 THEN TargetCol ELSE TimestepCol(t))]

\* ---- mase
\* the cells of trues that are numbers
NumberCells ==
    {c \in (DOMAIN ms_args.trues) \X (1..ms_fh) : ~ms_args.trues[c[1]][c[2]].nan}

RECURSIVE TotalAbsoluteError(_)
\* the sum of |true - pred| over a set of cells
TotalAbsoluteError(cells) ==
    IF cells = {} THEN 0
    ELSE LET c == CHOOSE x \in cells : TRUE
         IN Abs(ms_args.trues[c[1]][c[2]].v - ms_args.preds[c[1]][c[2]])
            + TotalAbsoluteError(cells \ {c})

\* C19: with a scale error of 0 mase divides by 1, so it returns the mean
\* absolute error averaged over the horizon; with any other scale error it
\* divides by the scale error itself.
C19_ScaleGuard ==
    ms_pc = "done" =>
      /\ ms_result.num = TotalAbsoluteError(NumberCells)
      /\ ms_result.den =
            Len(ms_trues) * ms_fh * (IF ms_scale = 0 THEN 1 ELSE ms_scale)

\* a call with scale error 0 on two rows and two steps with a non-zero error
C19_Witness ==
    /\ ms_pc = "done"
    /\ ms_scale = 0
    /\ ms_fh = 2
    /\ Len(ms_trues) = 2
    /\ ms_result.num > 0
    /\ ms_result.den = 4

\* the calls of fit _fit made for one group, in the order it made them
AttemptsOf(group) == IF group \in DOMAIN sk_log THEN sk_log[group] ELSE <<>>

\* the option sets and results of a sequence of calls
Shape(attempts) ==
    [k \in DOMAIN attempts |-> <<attempts[k].options, attempts[k].ok>>]

\* C20: within one pass of _fit a group's forecaster is either never fitted
\* (series not longer than the window), fitted once with the configured
\* options and success, or fitted with the configured options, failed, and
\* fitted exactly once more with a parameter-free instance of the same
\* forecaster class; never more than two calls of fit per group, none after a
\* successful one, and the stored forecaster is the one of the last call.
C20_FitStateMachine ==
    \A group \in DOMAIN sk_log :
        LET attempts == AttemptsOf(group)
            last == attempts[Len(attempts)]
        IN /\ Len(attempts) <= 2
           /\ Shape(attempts) \in
                 {<< <<"configured", TRUE>> >>,
                  << <<"configured", FALSE>>, <<"default", TRUE>> >>,
                  << <<"configured", FALSE>>, <<"default", FALSE>> >>}
           /\ \A k \in DOMAIN attempts : attempts[k].cls = sk_cfg.model_path
           /\ ~last.ok => sk_pc = "fit_raised"
           /\ group \in DOMAIN sk_models
           /\ sk_models[group].cls = last.cls
           /\ sk_models[group].options = last.options
           /\ sk_models[group].is_fitted = last.ok

\* fit returned with one group fitted at the first call and another fitted
\* by the retry with default options
C20_Witness ==
    /\ sk_pc = "ready"
    /\ \E g \in DOMAIN sk_models :
          Shape(AttemptsOf(g)) = << <<"configured", FALSE>>, <<"default", TRUE>> >>
    /\ \E g \in DOMAIN sk_models :
          Shape(AttemptsOf(g)) = << <<"configured", TRUE>> >>

\* the predictions and displacements of the running handler on dataset ds
StepsOf(ds) == SelectSeq(ar_steps, LAMBDA e : e.ds = ds)

InCall == ar_pc \in {"call_loop", "call_done", "call_raised"}

Last(seq) == seq[Len(seq)]

\* C21: in __call__ the operations on each underlying dataset alternate
\* strictly, prediction of step t then displacement then prediction of step
\* t+1; the displacement uses the prediction just made, the next prediction
\* reads the displaced frame, whose history window ends with that prediction;
\* when the call returns each dataset has had exactly H predictions and H-1
\* displacements, the last operation being a prediction.
C21_PredictDisplaceAlternate ==
    InCall =>
      \A ds \in Range(ar_ds_arr) :
        LET steps == StepsOf(ds)
        IN /\ \A k \in DOMAIN steps :
                IF k % 2 = 1
                THEN /\ steps[k].op = "predict"
                     /\ steps[k].timestep = (k - 1) \div 2
                     /\ k > 1 =>
                          /\ steps[k].before = steps[k - 1].after
                          /\ HistCol \in steps[k].before.columns =>
                               \A r \in DOMAIN steps[k].before.rows :
                                  Last(steps[k].before.rows[r][HistCol])
                                     = steps[k - 2].predictions[r]
                ELSE /\ steps[k].op = "displace"
                     /\ steps[k].timestep = k \div 2
                     /\ steps[k].predictions = steps[k - 1].predictions
                     /\ steps[k].before = steps[k - 1].before
           /\ Len(steps) <= 2 * ar_cfg.n_ts_predictions - 1
           /\ ar_pc = "call_done" =>
                /\ Len(steps) = 2 * ar_cfg.n_ts_predictions - 1
                /\ Cardinality({k \in DOMAIN steps : steps[k].op = "predict"})
                      = ar_cfg.n_ts_predictions
                /\ Cardinality({k \in DOMAIN steps : steps[k].op = "displace"})
                      = ar_cfg.n_ts_predictions - 1

\* a call on two datasets with a history window and three steps has returned
C21_Witness ==
    /\ ar_pc = "call_done"
    /\ ar_cfg.n_ts_predictions >= 3
    /\ Len(ar_ds_arr) = 2
    /\ \A ds \in Range(ar_ds_arr) :
          /\ HistCol \in ar_pre[ds].columns
          /\ Len(StepsOf(ds)) = 5

\* the displacements of the running handler
Displacements == {k \in DOMAIN ar_steps : ar_steps[k].op = "displace"}

\* C22: a displacement turns each row's history window [w1, ..., wn] into
\* [w2, ..., wn, p] with p the prediction of that same row: same width,
\* oldest entry dropped, kept entries in their order.
C22_WindowSlides ==
    \A k \in Displacements :
        LET step == ar_steps[k]
        IN HistCol \in step.before.columns =>
             \A r \in DOMAIN step.before.rows :
                 LET old == step.before.rows[r][HistCol]
                     new == step.after.rows[r][HistCol]
                 IN /\ Len(new) = Len(old)
                    /\ \A j \in 1..(Len(old) - 1) : new[j] = old[j + 1]
                    /\ new[Len(new)] = step.predictions[r]

\* a second displacement of a frame of two rows whose predictions differ
C22_Witness ==
    \E k \in Displacements :
        LET step == ar_steps[k]
        IN /\ HistCol \in step.before.columns
           /\ step.timestep >= 2
           /\ Len(step.before.rows) >= 2
           /\ step.predictions[1] # step.predictions[2]
           /\ Len(step.before.rows[1][HistCol]) >= 3

\* the delta table's entry a row of the given group labels has to use
ExpectedDelta(cfg, row) ==
    IF cfg.group_by = <<>> THEN cfg.deltas[DefaultKey]
    ELSE LET labels == {row[cfg.group_by[j]] : j \in DOMAIN cfg.group_by}
             observed == {key \in DOMAIN cfg.deltas :
                             ~key.sentinel /\ key.vals = labels}
         IN IF observed = {} THEN cfg.deltas[DefaultKey]
            ELSE cfg.deltas[CHOOSE key \in observed : TRUE]

\* C23: a displacement slides the window of every ordering column the frame
\* has by one, and the new last value is the previous last value plus the
\* delta of that column for the row's own group combination; the default
\* group's delta when the task is ungrouped or the combination is not a key
\* of the delta table.
C23_OrderColumnsAdvance ==
    \A k \in Displacements :
        LET step == ar_steps[k]
        IN \A c \in Range(ar_cfg.order_by) \cap step.before.columns :
              \A r \in DOMAIN step.before.rows :
                 LET old == step.before.rows[r][c]
                     new == step.after.rows[r][c]
                 IN /\ Len(new) = Len(old)
                    /\ \A j \in 1..(Len(old) - 1) : new[j] = old[j + 1]
                    /\ new[Len(new)] =
                          old[Len(old)] + ExpectedDelta(ar_cfg, step.before.rows[r])[c]

\* a displacement of a grouped frame with a row of an observed group and a
\* row of a group the delta table does not have
C23_Witness ==
    \E k \in Displacements :
        LET step == ar_steps[k]
        IN /\ ar_cfg.group_by # <<>>
           /\ OrderCol \in step.before.columns
           /\ \E r1, r2 \in DOMAIN step.before.rows :
                 /\ RowGroup(step.before.rows[r1], ar_cfg.group_by) \in DOMAIN ar_cfg.deltas
                 /\ RowGroup(step.before.rows[r2], ar_cfg.group_by) \notin DOMAIN ar_cfg.deltas
                 /\ step.after.rows[r1][OrderCol][2] - step.before.rows[r1][OrderCol][2]
                      # step.after.rows[r2][OrderCol][2] - step.before.rows[r2][OrderCol][2]

\* ---- statistical mixer, choice of the forecaster family
\* the passes of _fit made by a trial, in order
TrialFits == SelectSeq(hs_module, LAMBDA e : e.by = "trial")

\* the recorded error of the trial of a candidate
ErrorOf(class) == hs_study.trials[CHOOSE i \in TrialsOf(class) : TRUE].value

\* C24: a pass of _fit made while hyperparameter search is off and no study
\* exists uses the configured model_path; a pass made inside a trial uses the
\* candidate suggested for that trial; a pass made after all the trials have
\* finished uses a candidate whose recorded error no other candidate beats.
C24_FamilySelection ==
    /\ \A k \in DOMAIN TrialFits :
          /\ k <= Len(hs_study.trials)
          /\ TrialFits[k].class = hs_study.trials[k].class
    /\ \A k \in DOMAIN hs_module :
          hs_module[k].by # "trial" =>
             IF hs_study.exists
             THEN /\ Len(hs_study.trials) = NTrials
                  /\ TrialsOf(hs_module[k].class) # {}
                  /\ \A i \in DOMAIN hs_study.trials :
                        ~Less(hs_study.trials[i].value, ErrorOf(hs_module[k].class))
             ELSE hs_module[k].class = hs_cfg.model_path

\* the final fit after a search took a candidate other than the configured
\* model_path, whose finite error is below that of the first trial
C24_Witness ==
    /\ hs_pc = "ready"
    /\ hs_study.exists
    /\ \E k \in DOMAIN hs_module :
          /\ hs_module[k].by = "fit"
          /\ hs_module[k].class # hs_cfg.model_path
          /\ hs_module[k].class # hs_study.trials[1].class
          /\ ~ErrorOf(hs_module[k].class).inf
          /\ ~hs_study.trials[1].value.inf

\* ---- statistical mixer, relative horizon positions
\* the forecaster that answered output row r
Answering(r) == sk_models[sk_ydf[r].model]

\* whether the base forecaster of a table entry exposes a cutoff and a
\* differencing order
HasLowerBound(model) == model.cls = "arima.AutoARIMA"

\* -cutoff + d + 1 with d taken as 0 when unset, the cutoff being the index
\* of the newest value the forecaster was fitted on
LowerBound(model) ==
    LET newest == CHOOSE e \in Range(model.series) :
                     \A x \in Range(model.series) : x.label <= e.label
    IN (-newest.label) + (IF model.d = <<>> THEN 0 ELSE model.d[1]) + 1

\* C25: the positions requested for the k-th row of a group with offset o
\* start at max(k + o + 1, min_offset) when the forecaster has a minimum
\* offset and at k + o + 1 when it has none, go up one by one, and none of
\* them is below the minimum.
C25_FirstPositionClipped ==
    sk_pc \in {"predicting", "done"} =>
      \A r \in DOMAIN sk_ydf :
         ~sk_ydf[r].zero =>
            LET fh == sk_ydf[r].fh
                asked == RankInGroup(sk_ds, r) + sk_offset + 1
                model == Answering(r)
            IN /\ \A j \in 1..(Len(fh) - 1) : fh[j + 1] = fh[j] + 1
               /\ fh # <<>> =>
                    fh[1] = IF HasLowerBound(model)
                            THEN Max2(asked, LowerBound(model))
                            ELSE asked
               /\ HasLowerBound(model) =>
                    \A j \in DOMAIN fh : fh[j] >= LowerBound(model)

\* a finished call with a row whose request was below the minimum offset and
\* was clipped to it
C25_Witness ==
    /\ sk_pc = "done"
    /\ \E r \in DOMAIN sk_ydf :
          /\ ~sk_ydf[r].zero
          /\ sk_ydf[r].fh # <<>>
          /\ HasLowerBound(Answering(r))
          /\ RankInGroup(sk_ds, r) + sk_offset + 1 < LowerBound(Answering(r))
          /\ sk_ydf[r].fh[1] = LowerBound(Answering(r))

\* ---- statistical mixer, groups with too short a series
\* the number of training rows of the group combination stored under key
FitSize(key) ==
    IF key = DefaultKey THEN Len(sk_train)
    ELSE Cardinality({i \in DOMAIN sk_train : RowKey(sk_train, i) = key})

\* the combination's series is not larger than the window
TooShort(key) == FitSize(key) <= sk_cfg.window

\* C26: a group combination whose series at fit time is not larger than the
\* window is skipped without error: fit is never called on its forecaster,
\* which stays unfitted, an exception leaves fit only when a call of fit
\* failed, every visited combination with a longer series is fitted when fit
\* returns, and at prediction time the rows of a skipped combination are
\* answered by the default forecaster (the call raising only when the
\* default forecaster itself was never fitted).
C26_ShortSeriesSkipped ==
    /\ \A key \in DOMAIN sk_models :
          TooShort(key) => AttemptsOf(key) = <<>> /\ ~sk_models[key].is_fitted
    /\ sk_pc = "fit_raised" =>
          \E group \in DOMAIN sk_log : \E k \in DOMAIN sk_log[group] : ~sk_log[group][k].ok
    /\ sk_pc = "ready" =>
          \A key \in DOMAIN sk_models : ~TooShort(key) => sk_models[key].is_fitted
    /\ sk_pc \in {"predicting", "done", "predict_raised"} =>
          \A r \in DOMAIN sk_ydf :
             (RowKey(sk_ds, r) \in DOMAIN sk_models /\ TooShort(RowKey(sk_ds, r))) =>
                /\ ~sk_ydf[r].zero => sk_ydf[r].model = DefaultKey
                /\ sk_pc = "done" => ~sk_ydf[r].zero
    /\ sk_pc = "predict_raised" => ~sk_models[DefaultKey].is_fitted

\* a finished call in which a row of a skipped combination was answered by
\* the default forecaster while another combination has its own fitted one
C26_Witness ==
    /\ sk_pc = "done"
    /\ \E r \in DOMAIN sk_ydf :
          /\ RowKey(sk_ds, r) \in DOMAIN sk_models
          /\ TooShort(RowKey(sk_ds, r))
          /\ sk_ydf[r] = ForecastOf(DefaultKey, RankInGroup(sk_ds, r))
    /\ \E key \in DOMAIN sk_models : key # DefaultKey /\ sk_models[key].is_fitted

\* ---- autoregressive mixer, several underlying datasets
RECURSIVE Locate(_, _)
\* the underlying dataset and the row in it that row r of the concatenation
\* of the datasets ds_arr is
Locate(ds_arr, r) ==
    LET n == Len(ar_pre[Head(ds_arr)].rows)
    IN IF r <= n THEN [ds |-> Head(ds_arr), row |-> r]
       ELSE Locate(Tail(ds_arr), r - n)

\* the predictions made for dataset ds at a timestep
PredictionsOf(ds, timestep) ==
    LET k == CHOOSE k \in DOMAIN ar_steps :
                /\ ar_steps[k].op = "predict"
                /\ ar_steps[k].ds = ds
                /\ ar_steps[k].timestep = timestep
    IN ar_steps[k].predictions

\* the frame the displacements so far leave dataset ds with
DisplacedSoFar(ds) ==
    LET mine == {k \in Displacements : ar_steps[k].ds = ds}
    IN IF mine = {} THEN ar_pre[ds]
       ELSE ar_steps[CHOOSE k \in mine : \A j \in mine : j <= k].after

\* C27: during __call__ on several underlying datasets each dataset's frame
\* is what its own displacements made of it (the displacement of one dataset
\* changes no row of another, and a dataset outside the call is untouched),
\* and when the call returns output row r holds, step by step, the
\* predictions made for row r of the concatenated input.
C27_DatasetsIndependent ==
    /\ ar_pc = "call_loop" =>
          \A ds \in DOMAIN ar_frames :
             ar_frames[ds] = IF ds \in Range(ar_ds_arr) THEN DisplacedSoFar(ds)
                             ELSE ar_pre[ds]
    /\ ar_pc = "call_done" =>
          /\ Len(ar_ydf.prediction) = TotalLength(ar_pre, ar_ds_arr)
          /\ \A r \in DOMAIN ar_ydf.prediction :
                LET at == Locate(ar_ds_arr, r)
                IN ar_ydf.prediction[r] =
                      [t \in 1..ar_cfg.n_ts_predictions |->
                          PredictionsOf(at.ds, t - 1)[at.row]]

\* a call on the concatenation of two datasets of different lengths, with a
\* history window and two or more steps, has returned
C27_Witness ==
    /\ ar_pc = "call_done"
    /\ ar_ds_arr = <<1, 2>>
    /\ ar_cfg.n_ts_predictions >= 2
    /\ HistCol \in ar_pre[1].columns
    /\ Len(ar_pre[1].rows) # Len(ar_pre[2].rows)
    /\ PredictionsOf(1, 1) # PredictionsOf(2, 1)

\* ---- statistical mixer, life of the model table
\* the series a forecaster fitted for key on the given rows has seen: the
\* target values of the key's rows, oldest first
ExpectedSeries(key, rows) ==
    SortedSeq({i - 1 : i \in {j \in DOMAIN rows :
                                 key = DefaultKey \/ RowKey(rows, j) = key}})

\* C28: a call of the mixer leaves the model table as it found it, with the
\* same objects under the same keys; every object in the table was created
\* by a pass of _fit; and when fit or partial_fit has returned, every group
\* combination, the default one included, holds an object created by that
\* last pass, fitted (if at all) on the series of that pass alone.
C28_TableLifecycle ==
    /\ (hs_out.called /\ hs_out.passes = Len(hs_module)) =>
          /\ hs_models = hs_out.models
          /\ hs_gen = hs_out.gen
    /\ DOMAIN hs_gen = DOMAIN hs_models
    /\ \A key \in DOMAIN hs_gen : hs_gen[key] \in 1..Len(hs_module)
    /\ hs_pc = "ready" =>
          \A key \in Range(hs_cfg.group_combinations) :
             /\ key \in DOMAIN hs_models
             /\ hs_gen[key] = Len(hs_module)
             /\ [k \in DOMAIN hs_models[key].series |->
                    hs_models[key].series[k].value.v] =
                   IF hs_models[key].is_fitted
                   THEN ExpectedSeries(key, hs_train \o hs_dev)
                   ELSE <<>>

\* partial_fit has returned on a grouped task whose table a call had read,
\* fully fitted, between fit and partial_fit
C28_Witness ==
    /\ hs_pc = "ready"
    /\ hs_method = "partial_fit"
    /\ hs_cfg.group_by # <<>>
    /\ hs_out.called
    /\ ~hs_out.raised
    /\ hs_out.passes < Len(hs_module)
    /\ \A key \in DOMAIN hs_models :
          /\ hs_models[key].is_fitted
          /\ hs_out.models[key].is_fitted
          /\ hs_out.gen[key] < hs_gen[key]

\* ---- statistical mixer, partition of the input rows
\* C29: in the statistical mixer's predict no row is assigned a forecast
\* twice (the rows served for distinct group combinations are disjoint), the
\* rows not yet assigned are exactly the pending ones and still hold the zero
\* placeholder, and when the call returns every row has been assigned exactly
\* once and none holds the placeholder; on an ungrouped task the loop over
\* the combinations serves no row and the default forecaster answers all.
C29_RowsServedOnce ==
    sk_pc \in {"predicting", "done"} =>
      /\ DOMAIN sk_writes = DOMAIN sk_ds
      /\ \A r \in DOMAIN sk_ds :
            /\ sk_writes[r] <= 1
            /\ sk_writes[r] = 0 <=> sk_ydf[r].zero
            /\ sk_pc = "predicting" => (sk_writes[r] = 0 <=> (r - 1) \in sk_pending)
            /\ sk_pc = "done" => sk_writes[r] = 1
            /\ sk_cfg.group_by = <<>> =>
                  /\ sk_pc = "predicting" => sk_writes[r] = 0
                  /\ sk_pc = "done" => sk_ydf[r].model = DefaultKey

\* a finished call on three rows of two group combinations, each served by
\* its own forecaster
C29_Witness ==
    /\ sk_pc = "done"
    /\ Len(sk_ds) = 3
    /\ \E r1, r2 \in DOMAIN sk_ds :
          /\ sk_ydf[r1].model # DefaultKey
          /\ sk_ydf[r2].model # DefaultKey
          /\ sk_ydf[r1].model # sk_ydf[r2].model
    /\ \A r \in DOMAIN sk_ds : sk_writes[r] = 1

\* ---- autoregressive mixer, shape of a displaced frame
\* the columns a displacement for the given timestep may change
MayChange(step) ==
    {HistCol} \cup Range(ar_cfg.order_by)
       \cup (IF TimestepCol(step.timestep) \in step.before.columns
             THEN {TargetCol} ELSE {})

\* C30: after _displace_ds returns the frame has no '__mdb_predictions'
\* column, the columns and the rows it had before, and the same cell values
\* outside the target-history window, the ordering columns and, when the
\* column target_timestep_<timestep> exists, the target column, which then
\* holds that column's values.
C30_DisplacementKeepsShape ==
    \A k \in Displacements :
        LET step == ar_steps[k]
        IN /\ PredictionsCol \notin step.after.columns
           /\ step.after.columns = step.before.columns
           /\ DOMAIN step.after.rows = DOMAIN step.before.rows
           /\ \A r \in DOMAIN step.before.rows :
                 /\ DOMAIN step.after.rows[r] = step.before.columns
                 /\ \A c \in step.before.columns \ MayChange(step) :
                       step.after.rows[r][c] = step.before.rows[r][c]
                 /\ TimestepCol(step.timestep) \in step.before.columns =>
                       step.after.rows[r][TargetCol]
                          = step.before.rows[r][TimestepCol(step.timestep)]

\* a displacement of a labelled frame with a history window that replaced
\* the target by the labels of its timestep
C30_Witness ==
    \E k \in Displacements :
        LET step == ar_steps[k]
        IN /\ HistCol \in step.before.columns
           /\ TimestepCol(step.timestep) \in step.before.columns
           /\ Len(step.before.rows) >= 2
           /\ step.after.rows[1][TargetCol] # step.before.rows[1][TargetCol]
           /\ step.after.rows[1][GroupCol] = step.before.rows[1][GroupCol]
=============================================================================
